---- MODULE Spec2Model ----
(***************************************************************************)
(* A model of the LLM orchestration core of pixie:                         *)
(*   - the MCP chat WebSocket endpoint (app/api/public/mcp_chat.py) and    *)
(*     McpChatService (app/api/core/mcp_chat_service.py),                  *)
(*   - LlmChat (app/api/core/llm_chat.py): one chat turn and the HTML      *)
(*     extraction of the response processor.                               *)
(*                                                                         *)
(* Texts are sequences of string pieces (the concatenation of the pieces   *)
(* is the text), so the empty text is <<>>.  An optional value is the      *)
(* empty sequence (Python None) or a one-element sequence.                 *)
(***************************************************************************)
EXTENDS Integers, Sequences, FiniteSets, TLC

VARIABLES
    active_sessions,   \* mcp_chat.active_sessions: session_id -> session tuple
    ws_open,           \* per WebSocket connection: the receive loop is running
    ws_session_id,     \* per WebSocket connection: the local session_id of websocket_mcp_chat
    next_session_id,   \* stands for the fresh value _generate_session_id returns
    anthropic_client,  \* McpChatService.anthropic_client is not None
    last,              \* what the handler that ran last did (its return value and calls)
    requests_handled,  \* requests that changed a session so far
    svc,               \* one run of McpChatService's decide / execute / generate pipeline
    turn,              \* one call of LlmChat.generate_response
    html,              \* one raw text put through LlmChat._extract_clean_html, twice
    call               \* one call of another function of the core: its arguments and its result

vars == <<active_sessions, ws_open, ws_session_id, next_session_id, anthropic_client, last,
          requests_handled, svc, turn, html, call>>

----------------------------------------------------------------------------
(* Bounds of the model *)

MaxRequests == 3        \* requests of the endpoint that change a session, over all connections
MaxTurns == 1           \* 'message' requests handled per session
MaxBatch == 2           \* tool calls in one batch of the service pipeline

----------------------------------------------------------------------------
(* Values *)

None == <<>>
Some(x) == <<x>>

\* LlmChat is not in a turn; no text is being extracted.
TurnIdle ==
    [pc |-> "idle", site |-> 1, llm_provider |-> "", openai_client |-> FALSE,
     anthropic_client |-> FALSE, widget_id |-> "", user_message |-> <<>>,
     text_user_message |-> <<>>, previous_messages |-> <<>>, conversation_context |-> <<>>,
     html_content |-> None, ui_events |-> <<>>, text_events |-> <<>>,
     response_text |-> <<>>, ui_resource |-> None, raised |-> ""]
\* no other function is being called
CallIdle == [fn |-> "none"]
HtmlIdle == [pc |-> "idle", raw_text |-> <<>>, document |-> None, once |-> <<>>, twice |-> <<>>]

Websockets == {"w1", "w2"}
Servers == {"A", "B", "C"}
NoSession == 0

\* The tools each MCP server enumerates (session.list_tools), in order.
ServerTools(url) ==
    CASE url = "A" -> <<"search", "fetch">>
      [] url = "B" -> <<"search">>
      [] OTHER    -> <<"fetch", "search">>

\* Names the tool-decision model may put in a call: the servers' tools and one no server has.
DecidableNames == {"search", "fetch", "ghost"}

UserMessage == "q"

SeqsUpTo(S, n) == UNION {[1..k -> S] : k \in 0..n}

Range(f) == {f[i] : i \in DOMAIN f}

\* "sep".join(parts), each part a text
RECURSIVE Join(_, _)
Join(parts, sep) ==
    IF parts = <<>> THEN <<>>
    ELSE IF Len(parts) = 1 THEN parts[1]
    ELSE parts[1] \o sep \o Join(Tail(parts), sep)

----------------------------------------------------------------------------
(* McpChatService (app/api/core/mcp_chat_service.py) *)

\* The outcome of a piece of code: a value, or an exception of some class.
Ok(v) == [exc |-> "", value |-> v]
Raise(k) == [exc |-> k, value |-> <<>>]

\* One entry of the JSON array the tool-decision model returns.  json.loads
\* accepts any JSON value as an entry: an object (whose "tool_name" may be
\* absent, null or empty, a string, or an unhashable array/object) or a
\* non-object (number, string, null, array).
NamedCall(n) == [kind |-> "object", tool_name |-> Some(n), arguments |-> "{}"]
UnnamedCall == [kind |-> "object", tool_name |-> None, arguments |-> "{}"]
UnhashableNameCall == [kind |-> "object_unhashable_name", tool_name |-> None, arguments |-> "{}"]
NotObjectEntry == [kind |-> "not_object", tool_name |-> None, arguments |-> "{}"]

ToolCallEntries ==
    {NamedCall(n) : n \in DecidableNames} \cup {UnnamedCall, UnhashableNameCall, NotObjectEntry}

\* What session.call_tool does for one invocation.
CallOutcomes == {"ok", "empty_text", "raises"}

\* What anthropic_client.messages.create does for the tool-decision request:
\* it raises, or returns no content block, a first block without .text, or a text.
\* A text is: fence ("none", "closed": a complete ``` block, "unclosed": an
\* opening ``` only), and what the fenced / whole text is as JSON.
DecideReply(status, fence, body, items) ==
    [status |-> status, fence |-> fence, body |-> body, items |-> items]

DecideReplies ==
    {DecideReply(st, "none", "notjson", <<>>) : st \in {"raises", "no_content", "not_text_block"}}
    \cup {DecideReply("text", f, b, <<>>) : f \in {"none", "closed", "unclosed"}, b \in {"notjson", "nonarray"}}
    \cup {DecideReply("text", f, "array", items) :
            f \in {"none", "closed", "unclosed"}, items \in SeqsUpTo(ToolCallEntries, MaxBatch)}

\* The replies and call outcomes the endpoint's 'message' requests are run with.
HandlerBatches ==
    {<<>>, <<NamedCall("search")>>, <<NamedCall("fetch")>>,
     <<NamedCall("search"), NamedCall("fetch")>>, <<NotObjectEntry>>}
HandlerReplies ==
    {DecideReply("raises", "none", "notjson", <<>>), DecideReply("text", "none", "notjson", <<>>)}
    \cup {DecideReply("text", "none", "array", items) : items \in HandlerBatches}
HandlerCallOutcomes == {"ok", "raises"}
HandlerGenerateReplies == {"raises", "text"}

\* mcp_chat_service.py 207-211: re.search of a complete fenced block replaces
\* the text by the block's content; an unclosed fence stays in the text.
decide_strip_fence(text) ==
    IF text.fence = "closed" THEN [text EXCEPT !.fence = "none"] ELSE text

\* json.loads(response_text.strip())
json_loads(text) ==
    IF text.fence # "none" \/ text.body = "notjson" THEN Raise("JSONDecodeError")
    ELSE Ok([is_list |-> text.body = "array", items |-> text.items])

\* mcp_chat_service.py 205-224: the inner try and its except json.JSONDecodeError
decide_parse(text) ==
    LET parsed == json_loads(decide_strip_fence(text))
    IN  IF parsed.exc = "JSONDecodeError" THEN Ok(<<>>)
        ELSE IF parsed.exc # "" THEN parsed
        ELSE IF ~parsed.value.is_list THEN Ok(<<>>)
        ELSE Ok(parsed.value.items)

\* mcp_chat_service.py 192-203: the provider call and the read of its first block
decide_call_provider(reply) ==
    CASE reply.status = "raises" -> Raise("ProviderError")
      [] reply.status = "not_text_block" -> Raise("AttributeError")
      [] reply.status = "no_content" -> Ok(DecideReply("text", "none", "array", <<>>))
      [] OTHER -> Ok(reply)

\* mcp_chat_service.py 226-228: except Exception: return []
decide_outer_except_rethrow(r) == r
decide_outer_except(r) == IF r.exc # "" THEN Ok(<<>>) ELSE r

\* McpChatService.decide_tool_calls
decide_tool_calls(client, reply) ==
    IF ~client THEN Ok(<<>>)
    ELSE LET got == decide_call_provider(reply)
         IN  decide_outer_except(IF got.exc # "" THEN got ELSE decide_parse(got.value))

ToolResult(name, arguments, result, error) ==
    [tool_name |-> name, arguments |-> arguments, result |-> result, error |-> error]

\* mcp_chat_service.py 273-310: the try around session.call_tool
call_tool(session, name, arguments, outcome) ==
    CASE outcome = "raises" -> ToolResult(name, arguments, None, Some(<<"tool failed">>))
      [] outcome = "empty_text" -> ToolResult(name, arguments, Some(<<>>), None)
      [] OTHER -> ToolResult(name, arguments, Some(<<"ok">>), None)

\* McpChatService.execute_tool_calls: the loop from entry i on, with the
\* results and the (session, tool) invocations made so far.
RECURSIVE execute_loop(_, _, _, _, _, _)
execute_loop(tool_to_session_map, tool_calls, outcomes, i, results, calls) ==
    IF i > Len(tool_calls) THEN Ok([results |-> results, calls |-> calls])
    ELSE LET tool_call == tool_calls[i]
         IN  IF tool_call.kind = "not_object" THEN Raise("AttributeError")   \* tool_call.get, line 248
             ELSE IF tool_call.kind = "object" /\ tool_call.tool_name = None THEN
                 execute_loop(tool_to_session_map, tool_calls, outcomes, i + 1,
                     Append(results, ToolResult("unknown", tool_call.arguments, None,
                                                Some(<<"Tool name missing">>))), calls)
             ELSE IF tool_call.kind = "object_unhashable_name" THEN Raise("TypeError")  \* dict.get, line 262
             ELSE LET tool_name == tool_call.tool_name[1]
                  IN  IF tool_name \notin DOMAIN tool_to_session_map THEN
                          execute_loop(tool_to_session_map, tool_calls, outcomes, i + 1,
                              Append(results, ToolResult(tool_name, tool_call.arguments, None,
                                  Some(<<"Tool '", tool_name, "' not found in any connected MCP server">>))),
                              calls)
                      ELSE LET session == tool_to_session_map[tool_name]
                           IN  execute_loop(tool_to_session_map, tool_calls, outcomes, i + 1,
                                   Append(results, call_tool(session, tool_name, tool_call.arguments, outcomes[i])),
                                   Append(calls, [session |-> session, tool_name |-> tool_name]))

execute_tool_calls(tool_to_session_map, tool_calls, outcomes) ==
    execute_loop(tool_to_session_map, tool_calls, outcomes, 1, <<>>, <<>>)

\* The entry reaches session.call_tool.
Invokes(tool_to_session_map, tool_call) ==
    /\ tool_call.kind = "object"
    /\ tool_call.tool_name # None
    /\ tool_call.tool_name[1] \in DOMAIN tool_to_session_map

\* What anthropic_client.messages.create does for the answer request.
GenerateReplies == {"raises", "not_text_block", "no_content", "text"}

\* mcp_chat_service.py 334-337 and 413-416: one line per result
summary_line(r) ==
    <<"- ", r.tool_name, ": ">> \o
        (IF r.result # None /\ r.result[1] # <<>> THEN r.result[1]
         ELSE IF r.error = None THEN <<"None">>
         ELSE r.error[1])

results_summary(tool_call_results) ==
    Join([i \in 1..Len(tool_call_results) |-> summary_line(tool_call_results[i])], <<"\n">>)

\* mcp_chat_service.py 338 / 417
templated_summary(user_message, tool_call_results) ==
    <<"I executed the following tools:\n">> \o results_summary(tool_call_results)
        \o <<"\n\nBased on the results, here's the answer to your question: '", user_message, "'">>

\* mcp_chat_service.py 331-340: no client
generate_without_client(user_message, tool_call_results) ==
    IF tool_call_results # <<>> THEN templated_summary(user_message, tool_call_results)
    ELSE <<"Thank you for your message: '", user_message,
           "'. I don't have any tools available to help with this request.">>

\* mcp_chat_service.py 409-419: except Exception
generate_fallback(user_message, tool_call_results) ==
    IF tool_call_results # <<>> THEN templated_summary(user_message, tool_call_results)
    ELSE <<"Thank you for your message: '", user_message,
           "'. I encountered an error while processing your request.">>

\* mcp_chat_service.py 395-407: the provider call and the read of its first block
generate_call_provider(reply) ==
    CASE reply = "raises" -> Raise("ProviderError")
      [] reply = "not_text_block" -> Raise("AttributeError")
      [] reply = "no_content" -> Ok(<<>>)
      [] OTHER -> Ok(<<"answer">>)

\* McpChatService.generate_response
generate_response(client, user_message, tool_call_results, reply) ==
    IF ~client THEN Ok(generate_without_client(user_message, tool_call_results))
    ELSE LET got == generate_call_provider(reply)
         IN  IF got.exc # "" THEN Ok(generate_fallback(user_message, tool_call_results))
             ELSE got


----------------------------------------------------------------------------
(* The MCP chat endpoint (app/api/public/mcp_chat.py) *)

TransportOf(session_id, url) == <<"transport", session_id, url>>
McpSessionOf(session_id, url) == <<"mcp_session", session_id, url>>

ConnectOutcomes == {"ok", "error"}

\* McpChatService.connect_to_mcp_server: (transport, session, tools), or the
\* exception re-raised at mcp_chat_service.py 108-110.  A tool dict is known by
\* its name and the server that enumerated it.
connect_to_mcp_server(session_id, url, outcome) ==
    IF outcome # "ok" THEN Raise("ConnectError")
    ELSE Ok([transport |-> TransportOf(session_id, url),
             mcp_session |-> McpSessionOf(session_id, url),
             tools |-> [i \in 1..Len(ServerTools(url)) |->
                            [name |-> ServerTools(url)[i], server |-> url]]])

ToolNames(tools) == {tools[i].name : i \in 1..Len(tools)}

\* mcp_chat.py 56: {tool.get("name"): mcp_session for tool in tools}
initial_tool_to_session_map(tools, mcp_session) ==
    [n \in ToolNames(tools) |-> mcp_session]

\* mcp_chat.py 113-117: tool_to_session_map[tool_name] = mcp_session for each new tool
update_keep_existing(tool_to_session_map, new_tools, mcp_session) ==
    [n \in DOMAIN tool_to_session_map \cup ToolNames(new_tools) |->
        IF n \in DOMAIN tool_to_session_map THEN tool_to_session_map[n] ELSE mcp_session]
update_tool_to_session_map(tool_to_session_map, new_tools, mcp_session) ==
    [n \in DOMAIN tool_to_session_map \cup ToolNames(new_tools) |->
        IF n \in ToolNames(new_tools) THEN mcp_session ELSE tool_to_session_map[n]]

NoLast ==
    [op |-> "none", ws |-> "", session_id |-> NoSession, raised |-> FALSE,
     calls |-> <<>>, connections |-> <<>>, close_log |-> <<>>]

\* handle_mcp_chat_message, type "init" (mcp_chat.py 42-88).  Besides the five
\* components of the stored tuple, an entry of active_sessions remembers in
\* created_on the connection whose init request stored it; no code reads it.
HandleInit(w, url, outcome) ==
    /\ ws_open[w]
    /\ requests_handled < MaxRequests
    /\ LET session_id == next_session_id
           conn == connect_to_mcp_server(session_id, url, outcome)
       IN  IF conn.exc # "" THEN
               /\ last' = [NoLast EXCEPT !.op = "init", !.ws = w, !.raised = TRUE]
               /\ UNCHANGED <<active_sessions, ws_session_id, next_session_id, requests_handled>>
           ELSE
               /\ active_sessions' = active_sessions @@ (session_id :>
                    [server_connections |->
                        <<[transport |-> conn.value.transport,
                           mcp_session |-> conn.value.mcp_session,
                           server_url |-> url]>>,
                     tools |-> conn.value.tools,
                     tool_to_session_map |->
                        initial_tool_to_session_map(conn.value.tools, conn.value.mcp_session),
                     conversation_history |-> <<>>,
                     created_on |-> w])
               /\ next_session_id' = next_session_id + 1
               /\ requests_handled' = requests_handled + 1
               /\ ws_session_id' = [ws_session_id EXCEPT ![w] = session_id]    \* mcp_chat.py 291-292
               /\ last' = [NoLast EXCEPT !.op = "init", !.ws = w, !.session_id = session_id]
    /\ UNCHANGED <<ws_open, anthropic_client, svc, turn, html, call>>

\* mcp_chat.py 102-103: the server URL is one of the session's connections
never_connected(server_connections, server_url) == FALSE
already_connected(server_connections, server_url) ==
    server_url \in {server_connections[i].server_url : i \in 1..Len(server_connections)}

\* handle_mcp_chat_message, type "add_server" (mcp_chat.py 90-150)
HandleAddServer(w, session_id, url, outcome) ==
    /\ ws_open[w]
    /\ requests_handled < MaxRequests
    /\ LET rejected ==
               /\ last' = [NoLast EXCEPT !.op = "add_server", !.ws = w,
                                         !.session_id = session_id, !.raised = TRUE]
               /\ UNCHANGED <<active_sessions, ws_session_id, requests_handled>>
       IN  IF session_id \notin DOMAIN active_sessions THEN rejected
           ELSE LET s == active_sessions[session_id]
                    conn == connect_to_mcp_server(session_id, url, outcome)
                IN  IF already_connected(s.server_connections, url) THEN rejected
                    ELSE IF conn.exc # "" THEN rejected
                    ELSE
                        /\ active_sessions' = [active_sessions EXCEPT ![session_id] =
                             [server_connections |->
                                 Append(s.server_connections,
                                        [transport |-> conn.value.transport,
                                         mcp_session |-> conn.value.mcp_session,
                                         server_url |-> url]),
                              tools |-> s.tools \o conn.value.tools,
                              tool_to_session_map |->
                                 update_tool_to_session_map(s.tool_to_session_map,
                                     conn.value.tools, conn.value.mcp_session),
                              conversation_history |-> s.conversation_history,
                              created_on |-> s.created_on]]
                        /\ ws_session_id' = [ws_session_id EXCEPT ![w] = session_id]
                        /\ requests_handled' = requests_handled + 1
                        /\ last' = [NoLast EXCEPT !.op = "add_server", !.ws = w,
                                                  !.session_id = session_id]
    /\ UNCHANGED <<ws_open, next_session_id, anthropic_client, svc, turn, html, call>>

\* The outcomes of the calls of a batch; entries that reach no call have "ok".
OutcomesFor(outcomes, tool_to_session_map, tool_calls) ==
    {o \in [1..Len(tool_calls) -> outcomes] :
        \A i \in 1..Len(tool_calls) :
            ~Invokes(tool_to_session_map, tool_calls[i]) => o[i] = "ok"}

\* handle_mcp_chat_message, type "message" (mcp_chat.py 152-225)
HandleMessage(w, session_id, reply, gen_reply) ==
    /\ ws_open[w]
    /\ requests_handled < MaxRequests
    /\ IF session_id \notin DOMAIN active_sessions THEN
           /\ last' = [NoLast EXCEPT !.op = "message", !.ws = w,
                                     !.session_id = session_id, !.raised = TRUE]
           /\ UNCHANGED <<active_sessions, ws_session_id, requests_handled>>
       ELSE LET s == active_sessions[session_id]
                with_user == Append(s.conversation_history,
                                    [role |-> "user", content |-> <<UserMessage>>])
                decided == decide_tool_calls(anthropic_client, reply)
                tool_calls == decided.value
            IN  /\ Len(s.conversation_history) < 2 * MaxTurns
                /\ requests_handled' = requests_handled + 1
                /\ \E outcomes \in OutcomesFor(HandlerCallOutcomes, s.tool_to_session_map, tool_calls) :
                     LET executed == IF decided.exc # "" THEN decided
                                     ELSE IF tool_calls # <<>> THEN
                                         execute_tool_calls(s.tool_to_session_map, tool_calls, outcomes)
                                     ELSE Ok([results |-> <<>>, calls |-> <<>>])
                         answered == IF executed.exc # "" THEN executed
                                     ELSE generate_response(anthropic_client, UserMessage,
                                                            executed.value.results, gen_reply)
                     IN  IF answered.exc # "" THEN
                             \* conversation_history.append mutated the session's list (164-167)
                             /\ active_sessions' = [active_sessions EXCEPT
                                    ![session_id].conversation_history = with_user]
                             /\ last' = [NoLast EXCEPT !.op = "message", !.ws = w,
                                            !.session_id = session_id, !.raised = TRUE]
                             /\ UNCHANGED ws_session_id
                         ELSE
                             /\ active_sessions' = [active_sessions EXCEPT
                                    ![session_id].conversation_history =
                                        Append(with_user, [role |-> "assistant",
                                                           content |-> answered.value])]
                             /\ ws_session_id' = [ws_session_id EXCEPT ![w] = session_id]
                             /\ last' = [NoLast EXCEPT !.op = "message", !.ws = w,
                                            !.session_id = session_id,
                                            !.calls = executed.value.calls]
    /\ UNCHANGED <<ws_open, next_session_id, anthropic_client, svc, turn, html, call>>

\* handle_mcp_chat_message, any other type (mcp_chat.py 227-228)
HandleUnknown(w) ==
    /\ ws_open[w]
    /\ last' = [NoLast EXCEPT !.op = "unknown", !.ws = w, !.raised = TRUE]
    /\ UNCHANGED <<active_sessions, ws_open, ws_session_id, next_session_id, anthropic_client,
                   requests_handled, svc, turn, html, call>>

\* The closes cleanup_session makes for one session, in order.
CloseTargets(server_connections) ==
    UNION {{server_connections[i].mcp_session, server_connections[i].transport} :
            i \in 1..Len(server_connections)}

\* mcp_chat.py 238-250: try: await x.__aexit__(...) except Exception: log
try_close_unguarded(target, failing) ==
    [target |-> target, raised |-> target \in failing, propagates |-> target \in failing]
try_close(target, failing) ==
    [target |-> target, raised |-> target \in failing, propagates |-> FALSE]

\* mcp_chat.py 237-250: the loop over server_connections from connection i on
RECURSIVE cleanup_loop(_, _, _, _)
cleanup_loop(server_connections, failing, i, log) ==
    IF i > Len(server_connections) THEN [exc |-> "", value |-> log]
    ELSE LET a == try_close(server_connections[i].mcp_session, failing)
             b == try_close(server_connections[i].transport, failing)
         IN  IF a.propagates THEN [exc |-> "CloseError", value |-> Append(log, a)]
             ELSE IF b.propagates THEN [exc |-> "CloseError", value |-> Append(Append(log, a), b)]
             ELSE cleanup_loop(server_connections, failing, i + 1, Append(Append(log, a), b))

\* websocket_mcp_chat's finally (mcp_chat.py 329-333) with cleanup_session (231-253):
\* the connection ends, by a disconnect or an error of the receive loop.
Disconnect(w) ==
    /\ ws_open[w]
    /\ ws_open' = [ws_open EXCEPT ![w] = FALSE]
    /\ LET session_id == ws_session_id[w]
       IN  IF session_id # NoSession /\ session_id \in DOMAIN active_sessions THEN
               \E failing \in SUBSET CloseTargets(active_sessions[session_id].server_connections) :
                   LET conns == active_sessions[session_id].server_connections
                       closed == cleanup_loop(conns, failing, 1, <<>>)
                   IN  /\ active_sessions' =
                            IF closed.exc = "" THEN
                                [k \in DOMAIN active_sessions \ {session_id} |-> active_sessions[k]]
                            ELSE active_sessions
                       /\ last' = [NoLast EXCEPT !.op = "cleanup", !.ws = w,
                                      !.session_id = session_id, !.raised = closed.exc # "",
                                      !.connections = conns, !.close_log = closed.value]
           ELSE
               /\ last' = [NoLast EXCEPT !.op = "disconnect", !.ws = w, !.session_id = session_id]
               /\ UNCHANGED active_sessions
    /\ UNCHANGED <<ws_session_id, next_session_id, anthropic_client, requests_handled, svc, turn, html, call>>

----------------------------------------------------------------------------
(* One run of the service pipeline of a 'message' request (mcp_chat.py 169-189): *)
(* decide_tool_calls, then execute_tool_calls if it decided any call, then       *)
(* generate_response.                                                            *)

NoReply == DecideReply("none", "none", "notjson", <<>>)

SvcIdle ==
    [pc |-> "idle", client |-> FALSE, tool_to_session_map |-> <<>>, reply |-> NoReply,
     exc |-> "", tool_calls |-> <<>>, outcomes |-> <<>>, results |-> <<>>, calls |-> <<>>,
     gen_reply |-> "", answer |-> <<>>]

\* The maps the endpoint builds for the servers connected in some order.
RECURSIVE MapAfter(_)
MapAfter(urls) ==
    LET url == urls[Len(urls)]
        conn == connect_to_mcp_server(1, url, "ok").value
    IN  IF Len(urls) = 1 THEN initial_tool_to_session_map(conn.tools, conn.mcp_session)
        ELSE update_tool_to_session_map(MapAfter(SubSeq(urls, 1, Len(urls) - 1)),
                                        conn.tools, conn.mcp_session)

ServerOrders ==
    {o \in SeqsUpTo(Servers, Cardinality(Servers)) :
        o # <<>> /\ \A i, j \in 1..Len(o) : i # j => o[i] # o[j]}

ServiceMaps == {MapAfter(o) : o \in ServerOrders}

SvcInit ==
    svc \in {[SvcIdle EXCEPT !.pc = "start", !.client = c, !.tool_to_session_map = m] :
                c \in BOOLEAN, m \in ServiceMaps}

\* mcp_chat.py 170-174
SvcDecide(reply) ==
    /\ svc.pc = "start"
    /\ LET decided == decide_tool_calls(svc.client, reply)
       IN  svc' = [svc EXCEPT !.pc = IF decided.exc # "" THEN "raised" ELSE "decided",
                              !.reply = reply, !.exc = decided.exc,
                              !.tool_calls = decided.value]
    /\ UNCHANGED <<active_sessions, ws_open, ws_session_id, next_session_id, anthropic_client,
                   last, requests_handled, turn, html, call>>

\* mcp_chat.py 177-182
SvcExecute(outcomes) ==
    /\ svc.pc = "decided"
    /\ LET executed == IF svc.tool_calls # <<>> THEN
                           execute_tool_calls(svc.tool_to_session_map, svc.tool_calls, outcomes)
                       ELSE Ok([results |-> <<>>, calls |-> <<>>])
       IN  svc' = IF executed.exc # "" THEN
                      [svc EXCEPT !.pc = "raised", !.reply = NoReply, !.exc = executed.exc,
                                  !.outcomes = outcomes]
                  ELSE
                      [svc EXCEPT !.pc = "executed", !.reply = NoReply, !.outcomes = outcomes,
                                  !.results = executed.value.results,
                                  !.calls = executed.value.calls]
    /\ UNCHANGED <<active_sessions, ws_open, ws_session_id, next_session_id, anthropic_client,
                   last, requests_handled, turn, html, call>>

\* mcp_chat.py 185-189
SvcGenerate(gen_reply) ==
    /\ svc.pc = "executed"
    /\ LET answered == generate_response(svc.client, UserMessage, svc.results, gen_reply)
       IN  svc' = [svc EXCEPT !.pc = IF answered.exc # "" THEN "raised" ELSE "done",
                              !.exc = answered.exc, !.gen_reply = gen_reply,
                              !.answer = answered.value]
    /\ UNCHANGED <<active_sessions, ws_open, ws_session_id, next_session_id, anthropic_client,
                   last, requests_handled, turn, html, call>>

ServiceInit ==
    /\ active_sessions = <<>>
    /\ ws_open = [w \in Websockets |-> FALSE]
    /\ requests_handled = 0
    /\ ws_session_id = [w \in Websockets |-> NoSession]
    /\ next_session_id = 1
    /\ anthropic_client = FALSE
    /\ last = NoLast
    /\ SvcInit
    /\ turn = TurnIdle
    /\ html = HtmlIdle
    /\ call = CallIdle

ServiceNext ==
    \/ \E reply \in DecideReplies : SvcDecide(reply)
    \/ \E outcomes \in OutcomesFor(CallOutcomes, svc.tool_to_session_map, svc.tool_calls) :
           SvcExecute(outcomes)
    \/ \E gen_reply \in GenerateReplies : SvcGenerate(gen_reply)

SpecService == ServiceInit /\ [][ServiceNext]_vars

\* One client connection has been accepted (websocket.accept, mcp_chat.py 276).
Init ==
    /\ active_sessions = <<>>
    /\ ws_open = [w \in Websockets |-> w = "w1"]
    /\ requests_handled = 0
    /\ ws_session_id = [w \in Websockets |-> NoSession]
    /\ next_session_id = 1
    /\ anthropic_client \in BOOLEAN
    /\ last = NoLast
    /\ svc = SvcIdle
    /\ turn = TurnIdle
    /\ html = HtmlIdle
    /\ call = CallIdle

Next ==
    \/ \E w \in Websockets, url \in Servers, outcome \in ConnectOutcomes :
           HandleInit(w, url, outcome)
    \/ \E w \in Websockets, session_id \in 1..MaxRequests, url \in Servers,
          outcome \in ConnectOutcomes :
           HandleAddServer(w, session_id, url, outcome)
    \/ \E w \in Websockets, session_id \in 1..MaxRequests,
          reply \in HandlerReplies, gen_reply \in HandlerGenerateReplies :
           HandleMessage(w, session_id, reply, gen_reply)
    \/ \E w \in Websockets : HandleUnknown(w)
    \/ \E w \in Websockets : Disconnect(w)

Spec == Init /\ [][Next]_vars

\* Two client connections have been accepted and are served by the same
\* process: they share the module-level active_sessions (mcp_chat.py 27).
SharedInit ==
    /\ active_sessions = <<>>
    /\ ws_open = [w \in Websockets |-> TRUE]
    /\ requests_handled = 0
    /\ ws_session_id = [w \in Websockets |-> NoSession]
    /\ next_session_id = 1
    /\ anthropic_client = FALSE
    /\ last = NoLast
    /\ svc = SvcIdle
    /\ turn = TurnIdle
    /\ html = HtmlIdle
    /\ call = CallIdle

SpecShared == SharedInit /\ [][Next]_vars

----------------------------------------------------------------------------
(* The response processor: LlmChat._extract_clean_html (llm_chat.py 809-890) *)
(*                                                                           *)
(* A raw text is a sequence of pieces.  Every piece that holds a '<' holds   *)
(* it as its first character and every piece that holds a '>' as its last,   *)
(* so the offsets the code computes fall between pieces.                     *)

\* the piece that stands for the three backquotes of a Markdown fence
Fence == "[fence]"

HtmlPieces == {"<!DOCTYPE", "html", "<html", ">", "</html>", "\n", Fence, "x"}

IsSpace(t) == t \in {" ", "\n"}
HasLt(t) == t \in {"<!DOCTYPE", "<html", "</html>", "<b", "<script", "</script>"}
HasGt(t) == t \in {">", "</html>", "</script>"}

Min(S) == CHOOSE x \in S : \A y \in S : x <= y
Max(S) == CHOOSE x \in S : \A y \in S : y <= x

\* text[a:b] of Python, offsets from 0
Slice(text, a, b) == SubSeq(text, a + 1, b)

\* str.strip() / str.rstrip()
RECURSIVE RStrip(_)
RStrip(text) ==
    IF text # <<>> /\ IsSpace(text[Len(text)]) THEN RStrip(SubSeq(text, 1, Len(text) - 1))
    ELSE text
RECURSIVE LStrip(_)
LStrip(text) == IF text # <<>> /\ IsSpace(text[1]) THEN LStrip(Tail(text)) ELSE text
Strip(text) == LStrip(RStrip(text))

\* llm_chat.py 831-832: re.findall of code_block_pattern (an opening fence, an
\* optional html tag, whitespace, the lazily matched group, an optional newline
\* and the closing fence) under re.DOTALL: the group of every match, in order,
\* scanning from piece number from.
RECURSIVE code_block_findall(_, _)
code_block_findall(text, from) ==
    LET opens == {i \in from..Len(text) : text[i] = Fence}
    IN  IF opens = {} THEN <<>>
        ELSE LET p == Min(opens)
                 closes == {i \in (p + 1)..Len(text) : text[i] = Fence}
             IN  IF closes = {} THEN <<>>
                 ELSE LET q == Min(closes)
                          after_tag == IF text[p + 1] = "html" THEN p + 2 ELSE p + 1
                          cur == Min({i \in after_tag..q : ~IsSpace(text[i])})
                          e == IF q - 1 >= cur /\ text[q - 1] = "\n" THEN q - 1 ELSE q
                      IN  <<SubSeq(text, cur, e - 1)>> \o code_block_findall(text, q + 1)

\* llm_chat.py 833-835: raw_text = matches[-1]
use_first_block(matches) == matches[1]
use_last_block(matches) == matches[Len(matches)]

keep_raw_text(text) == text
strip_code_blocks(text) ==
    LET matches == code_block_findall(text, 1)
    IN  IF matches # <<>> THEN use_last_block(matches) ELSE text

\* re.search(r'<!DOCTYPE\s+html[^>]*>', text, re.IGNORECASE).start(), or -1
doctype_start(text) ==
    LET starts == {i \in 1..Len(text) :
                      /\ text[i] = "<!DOCTYPE"
                      /\ \E j \in (i + 2)..Len(text) :
                             /\ text[j] = "html"
                             /\ \A k \in (i + 1)..(j - 1) : IsSpace(text[k])
                             /\ \E g \in (j + 1)..Len(text) : HasGt(text[g])}
    IN  IF starts = {} THEN -1 ELSE Min(starts) - 1

\* re.search(r'<html[^>]*>', text, re.IGNORECASE).start(), or -1
html_tag_start(text) ==
    LET starts == {i \in 1..Len(text) :
                      text[i] = "<html" /\ \E g \in (i + 1)..Len(text) : HasGt(text[g])}
    IN  IF starts = {} THEN -1 ELSE Min(starts) - 1

\* llm_chat.py 838-853
find_html_start(text) ==
    IF doctype_start(text) # -1 THEN doctype_start(text)
    ELSE IF html_tag_start(text) # -1 THEN html_tag_start(text)
    ELSE 0

\* llm_chat.py 856-867
find_html_end(text) ==
    LET closing == {i \in 1..Len(text) : text[i] = "</html>"}
        gts == {i \in 1..Len(text) : HasGt(text[i])}
    IN  IF closing # {} THEN Max(closing)
        ELSE IF gts # {} THEN Max(gts)
        ELSE Len(text)

\* llm_chat.py 873-876: drop what precedes the first '<'
drop_before_first_lt(text) ==
    LET lts == {i \in 1..Len(text) : HasLt(text[i])}
    IN  IF lts # {} /\ Min(lts) > 1 THEN SubSeq(text, Min(lts), Len(text)) ELSE text

\* llm_chat.py 879-881
ensure_prologue(text) ==
    IF text # <<>> /\ text[1] \in {"<!DOCTYPE", "<html"} THEN text
    ELSE <<"<!DOCTYPE", " ", "html", ">", "\n">> \o text

\* llm_chat.py 884-886
leave_unclosed(text) == text
ensure_closing_tag(text) ==
    IF RStrip(text) # <<>> /\ RStrip(text)[Len(RStrip(text))] = "</html>" THEN text
    ELSE RStrip(text) \o <<"\n", "</html>">>

\* llm_chat.py 837-890: what follows the removal of the code blocks
extract_from(text) ==
    LET html_content == Strip(Slice(text, find_html_start(text), find_html_end(text)))
    IN  ensure_closing_tag(ensure_prologue(drop_before_first_lt(html_content)))

\* LlmChat._extract_clean_html
_extract_clean_html(raw_text) ==
    IF raw_text = <<>> THEN <<>> ELSE extract_from(strip_code_blocks(raw_text))

----------------------------------------------------------------------------
(* One raw text through the extraction, then the result through it again *)

MaxHtmlLen == 4         \* pieces of a raw text
MaxProse == 1           \* pieces of the prose before and after a fenced document

\* complete documents a model may return inside a fence
CompleteDocuments ==
    {<<"<html", ">", "x", "</html>">>,
     <<"<!DOCTYPE", " ", "html", ">", "<html", ">", "</html>">>}
ProsePieces == {"x", "\n", "<b", ">"}
Prose == UNION {[1..n -> ProsePieces] : n \in 0..MaxProse}
FenceOpenings == {<<Fence>>, <<Fence, "html">>, <<Fence, "\n">>, <<Fence, "html", "\n">>}
FenceClosings == {<<Fence>>, <<"\n", Fence>>}

\* prose, a fenced complete document, prose
WrappedDocument(before, opening, document, closing, after) ==
    before \o opening \o document \o closing \o after

\* A raw text, and the complete document it was built around (None: built freely).
FreeTexts ==
    {[raw_text |-> r, document |-> None] :
        r \in UNION {[1..n -> HtmlPieces] : n \in 0..MaxHtmlLen}}
WrappedDocuments ==
    {[raw_text |-> WrappedDocument(b, o, d, c, a), document |-> Some(d)] :
        b \in Prose, o \in FenceOpenings, d \in CompleteDocuments, c \in FenceClosings,
        a \in Prose}
\* an earlier fenced block, then a fenced complete document
TwoBlockTexts ==
    {[raw_text |-> <<Fence>> \o e \o <<Fence>> \o
                   WrappedDocument(b, <<Fence, "html", "\n">>, d, <<"\n", Fence>>, a),
      document |-> Some(d)] :
        e \in Prose, b \in Prose, d \in CompleteDocuments, a \in Prose}

RawTexts == FreeTexts \cup WrappedDocuments \cup TwoBlockTexts

HtmlInit ==
    html \in {[HtmlIdle EXCEPT !.pc = "raw", !.raw_text = r.raw_text, !.document = r.document] :
                 r \in RawTexts}

\* _process_ui_generation_response's call (llm_chat.py 595)
ExtractOnce ==
    /\ html.pc = "raw"
    /\ html' = [html EXCEPT !.pc = "once", !.once = _extract_clean_html(html.raw_text)]
    /\ UNCHANGED <<active_sessions, ws_open, ws_session_id, next_session_id, anthropic_client,
                   last, requests_handled, svc, turn, call>>

\* the same call on the text the first call returned
ExtractTwice ==
    /\ html.pc = "once"
    /\ html' = [html EXCEPT !.pc = "twice", !.twice = _extract_clean_html(html.once)]
    /\ UNCHANGED <<active_sessions, ws_open, ws_session_id, next_session_id, anthropic_client,
                   last, requests_handled, svc, turn, call>>

HtmlSpecInit ==
    /\ active_sessions = <<>>
    /\ ws_open = [w \in Websockets |-> FALSE]
    /\ requests_handled = 0
    /\ ws_session_id = [w \in Websockets |-> NoSession]
    /\ next_session_id = 1
    /\ anthropic_client = FALSE
    /\ last = NoLast
    /\ svc = SvcIdle
    /\ turn = TurnIdle
    /\ HtmlInit
    /\ call = CallIdle

HtmlNext == ExtractOnce \/ ExtractTwice

SpecHtml == HtmlSpecInit /\ [][HtmlNext]_vars

----------------------------------------------------------------------------
(* LlmChat.generate_response: one chat turn (llm_chat.py 61-114) *)

WidgetIds == {"w-1", "w-2"}
UserMessages == {"hi", "bye"}
\* settings.llm_provider as configured
ProviderSettings == {"", "openai", "Claude", "gemini"}
LlmTools ==
    <<[name |-> "search", title |-> "Search", is_enabled |-> TRUE],
      [name |-> "fetch", title |-> "", is_enabled |-> FALSE]>>
PreviousMessageLists ==
    {<<>>,
     <<[role |-> "user", content |-> <<"a">>], [role |-> "assistant", content |-> <<"b">>]>>}

NoHistory == <<"No previous conversation history.">>

Capitalize(role) ==
    CASE role = "user" -> "User"
      [] role = "assistant" -> "Assistant"
      [] role = "system" -> "System"
      [] OTHER -> role

\* LlmChat._build_conversation_context
RECURSIVE context_lines(_)
context_lines(messages) ==
    IF messages = <<>> THEN <<>>
    ELSE LET line == <<Capitalize(Head(messages).role), ": ">> \o Head(messages).content
         IN  IF Len(messages) = 1 THEN line
             ELSE line \o <<"\n">> \o context_lines(Tail(messages))
_build_conversation_context(previous_messages) ==
    IF previous_messages = <<>> THEN NoHistory ELSE context_lines(previous_messages)

\* provider = (self.settings.llm_provider or "openai").lower()
provider_of(setting) ==
    CASE setting = "" -> "openai"
      [] setting = "Claude" -> "claude"
      [] OTHER -> setting

\* The four attempt sites of _generate_ui_resource and of _generate_response,
\* in the order of the code.
AttemptSites == 1..4
SiteProvider(site) == IF site \in {1, 3} THEN "openai" ELSE "claude"
SiteApplies(t, site) ==
    CASE site = 1 -> t.openai_client /\ provider_of(t.llm_provider) \in {"openai", "default"}
      [] site = 2 -> t.anthropic_client /\ provider_of(t.llm_provider) = "claude"
      [] site = 3 -> t.openai_client
      [] site = 4 -> t.anthropic_client
\* the first site from `from` on whose condition holds; past the last site if none
NextSite(t, from) ==
    LET applicable == {k \in AttemptSites : k >= from /\ SiteApplies(t, k)}
    IN  IF applicable = {} THEN 5 ELSE Min(applicable)

\* the except clause of an attempt site swallowed an exception: control falls
\* through to the next site
Caught == [exc |-> "caught", value |-> <<>>]

\* What one call of _generate_openai_ui_resource / _generate_claude_ui_resource
\* meets on its way.
UiOutcomes ==
    {"ok", "design_fetch_fails", "existing_ui_lookup_fails", "prompt_building_raises",
     "provider_raises", "processing_raises"}
UiRawReplies ==
    {<<>>, <<"x">>,
     <<"x", Fence, "html", "\n", "<html", ">", "x", "</html>", "\n", Fence>>}
UiRawsFor(outcome) ==
    IF outcome \in {"prompt_building_raises", "provider_raises", "processing_raises"}
    THEN {<<>>} ELSE UiRawReplies

\* LlmChat._process_ui_generation_response (llm_chat.py 563-614)
_process_ui_generation_response(raw_html) == [html_content |-> _extract_clean_html(raw_html)]

\* the try / except Exception around the provider call and the processing
\* (llm_chat.py 693-733, 770-807)
ui_provider_try(r) == IF r.exc # "" THEN Ok(None) ELSE r

\* _generate_openai_ui_resource / _generate_claude_ui_resource: the design
\* fetch and the existing-UI lookup catch their own failures (llm_chat.py
\* 488-511, 529-539), the prompt builders run outside any try (543-559).
\* The outcome is what the collaborators of the call do; with prompts.py as it
\* stands the call of build_ui_generation_user_message at 555-559 is the
\* outcome prompt_building_raises (see _prepare_ui_generation_context below),
\* the other outcomes are those of a builder that accepts the call.
generate_provider_ui_resource(outcome, raw_html) ==
    IF outcome = "prompt_building_raises" THEN Raise("Exception")
    ELSE ui_provider_try(
             IF outcome \in {"provider_raises", "processing_raises"} THEN Raise("Exception")
             ELSE Ok(Some(_process_ui_generation_response(raw_html))))

\* an attempt site of _generate_ui_resource: try: return ... except Exception: log
ui_site_rethrow(r) == r
ui_site_try(r) == IF r.exc # "" THEN Caught ELSE r

\* the condition of llm_chat.py 92 and 102
has_html(html_content) == html_content # None /\ html_content[1].html_content # <<>>

\* llm_chat.py 92-94
splice_user_message(user_message, html_content) ==
    IF has_html(html_content) THEN
        <<"Required UI description or improvements to the HTML content: ">> \o user_message
        \o <<"\n\n", "Following is the HTML content generated for the user's request: ">>
        \o html_content[1].html_content
    ELSE user_message

\* llm_chat.py 102-112
always_assemble(widget_id, html_content) ==
    IF html_content # None THEN
        Some([type |-> "resource",
              resource |-> [uri |-> <<"ui://widget/", widget_id>>, mimeType |-> "text/html",
                            text |-> html_content[1].html_content]])
    ELSE None
assemble_ui_resource(widget_id, html_content) ==
    IF has_html(html_content) THEN
        Some([type |-> "resource",
              resource |-> [uri |-> <<"ui://widget/", widget_id>>, mimeType |-> "text/html",
                            text |-> html_content[1].html_content]])
    ELSE None

\* What the text provider returns: response texts in pieces.
TextOutcomes == {"raises", "text"}
TextReplies ==
    {<<>>, <<"Done.">>, <<"<p>", "Done.", "&amp;", "</p>", "\n">>, <<"<p>", "</p>">>}
TextRepliesFor(outcome) == IF outcome = "raises" THEN {<<>>} ELSE TextReplies

IsTag(t) == t \in {"<p>", "</p>"}
RECURSIVE collapse_newlines(_)
collapse_newlines(text) ==
    IF Len(text) < 3 THEN text
    ELSE IF text[1] = "\n" /\ text[2] = "\n" /\ text[3] = "\n" THEN collapse_newlines(Tail(text))
    ELSE <<Head(text)>> \o collapse_newlines(Tail(text))

\* LlmChat._clean_html_from_text (llm_chat.py 1031-1076)
_clean_html_from_text(text) ==
    IF text = <<>> THEN text
    ELSE LET untagged == SelectSeq(text, LAMBDA t : ~IsTag(t))
             plain == [i \in 1..Len(untagged) |->
                          IF untagged[i] = "&amp;" THEN "&" ELSE untagged[i]]
         IN  Strip(collapse_newlines(plain))

\* LlmChat._generate_text_response_with_provider (llm_chat.py 251-331)
_generate_text_response_with_provider(outcome, reply) ==
    IF outcome = "raises" THEN Raise("Exception") ELSE Ok(_clean_html_from_text(reply))

\* an attempt site of _generate_response: try: return ... except Exception: log
text_site_try(r) == IF r.exc # "" THEN Caught ELSE r

\* str(tool_display_names)
RECURSIVE list_items(_)
list_items(names) ==
    IF names = <<>> THEN <<>>
    ELSE <<"'", Head(names), "'">> \o
         (IF Len(names) = 1 THEN <<>> ELSE <<", ">> \o list_items(Tail(names)))
list_repr(names) == <<"[">> \o list_items(names) \o <<"]">>

\* llm_chat.py 236-247: the fallback response of _generate_response
fallback_response(tools, user_message, conversation_context) ==
    LET num_previous ==
            IF conversation_context # NoHistory THEN
                1 + Cardinality({i \in 1..Len(conversation_context) :
                                    conversation_context[i] = "\n"})
            ELSE 0
        tool_display_names ==
            [i \in 1..Len(tools) |-> IF tools[i].title # "" THEN tools[i].title
                                     ELSE tools[i].name]
    IN  <<"Thank you for your message: '">> \o user_message \o <<"'. ">>
        \o (IF num_previous > 0 THEN
                <<"I can see we've had ", ToString(num_previous),
                  " previous exchanges in this conversation. ">>
            ELSE <<>>)
        \o <<"I'm working with the tools '">> \o list_repr(tool_display_names) \o <<"'. ">>
        \o <<"In a real implementation, this response would be generated by an LLM based on the tool's configuration, ",
             "conversation history, and your specific request. The UI resource below has been updated accordingly.">>

TurnInit ==
    turn \in {[TurnIdle EXCEPT !.pc = "ui", !.llm_provider = p, !.openai_client = o,
                               !.anthropic_client = a, !.widget_id = w,
                               !.user_message = <<m>>, !.previous_messages = h,
                               !.conversation_context = _build_conversation_context(h)] :
                 p \in ProviderSettings, o \in BOOLEAN, a \in BOOLEAN, w \in WidgetIds,
                 m \in UserMessages, h \in PreviousMessageLists}

\* llm_chat.py 85-100: _generate_ui_resource has returned html_content
enter_text_branch(t, html_content) ==
    [t EXCEPT !.pc = "text", !.site = 1, !.html_content = html_content,
              !.text_user_message = splice_user_message(t.user_message, html_content)]

\* llm_chat.py 100-114: _generate_response has returned response_text
return_turn(t, response_text) ==
    [t EXCEPT !.pc = "done", !.response_text = response_text,
              !.ui_resource = assemble_ui_resource(t.widget_id, t.html_content)]

\* an exception leaves generate_response
raise_from_turn(t, exc) == [t EXCEPT !.pc = "done", !.raised = exc]

\* _generate_ui_resource: the next attempt site whose condition holds
GenerateUiResourceAttempt(outcome, raw_html) ==
    /\ turn.pc = "ui"
    /\ NextSite(turn, turn.site) \in AttemptSites
    /\ LET site == NextSite(turn, turn.site)
           r == ui_site_try(generate_provider_ui_resource(outcome, raw_html))
           t == [turn EXCEPT !.ui_events =
                     Append(@, [site |-> site, provider |-> SiteProvider(site),
                                outcome |-> outcome, raw_html |-> raw_html])]
       IN  turn' = IF r.exc = "" THEN enter_text_branch(t, r.value)
                   ELSE IF r = Caught THEN [t EXCEPT !.site = site + 1]
                   ELSE raise_from_turn(t, r.exc)
    /\ UNCHANGED <<active_sessions, ws_open, ws_session_id, next_session_id, anthropic_client,
                   last, requests_handled, svc, html, call>>

\* _generate_ui_resource: no site is left, return None (llm_chat.py 479)
GenerateUiResourceNone ==
    /\ turn.pc = "ui"
    /\ NextSite(turn, turn.site) \notin AttemptSites
    /\ turn' = enter_text_branch(turn, None)
    /\ UNCHANGED <<active_sessions, ws_open, ws_session_id, next_session_id, anthropic_client,
                   last, requests_handled, svc, html, call>>

\* _generate_response: the next attempt site whose condition holds
GenerateResponseAttempt(outcome, reply) ==
    /\ turn.pc = "text"
    /\ NextSite(turn, turn.site) \in AttemptSites
    /\ LET site == NextSite(turn, turn.site)
           r == text_site_try(_generate_text_response_with_provider(outcome, reply))
           t == [turn EXCEPT !.text_events =
                     Append(@, [site |-> site, provider |-> SiteProvider(site),
                                outcome |-> outcome, reply |-> reply])]
       IN  turn' = IF r.exc = "" THEN return_turn(t, r.value)
                   ELSE IF r = Caught THEN [t EXCEPT !.site = site + 1]
                   ELSE raise_from_turn(t, r.exc)
    /\ UNCHANGED <<active_sessions, ws_open, ws_session_id, next_session_id, anthropic_client,
                   last, requests_handled, svc, html, call>>

\* _generate_response: no site is left, the fallback response (llm_chat.py 236-249)
GenerateResponseFallback ==
    /\ turn.pc = "text"
    /\ NextSite(turn, turn.site) \notin AttemptSites
    /\ turn' = return_turn(turn, fallback_response(LlmTools, turn.text_user_message,
                                                   turn.conversation_context))
    /\ UNCHANGED <<active_sessions, ws_open, ws_session_id, next_session_id, anthropic_client,
                   last, requests_handled, svc, html, call>>

TurnSpecInit ==
    /\ active_sessions = <<>>
    /\ ws_open = [w \in Websockets |-> FALSE]
    /\ requests_handled = 0
    /\ ws_session_id = [w \in Websockets |-> NoSession]
    /\ next_session_id = 1
    /\ anthropic_client = FALSE
    /\ last = NoLast
    /\ svc = SvcIdle
    /\ html = HtmlIdle
    /\ TurnInit
    /\ call = CallIdle

TurnNext ==
    \/ \E outcome \in UiOutcomes : \E raw_html \in UiRawsFor(outcome) :
           GenerateUiResourceAttempt(outcome, raw_html)
    \/ GenerateUiResourceNone
    \/ \E outcome \in TextOutcomes : \E reply \in TextRepliesFor(outcome) :
           GenerateResponseAttempt(outcome, reply)
    \/ GenerateResponseFallback

SpecTurn == TurnSpecInit /\ [][TurnNext]_vars

----------------------------------------------------------------------------
(* Calls of the other functions of the core, one function per specification *)

\* the variables such a call leaves alone, and their values while it runs
other_vars ==
    <<active_sessions, ws_open, ws_session_id, next_session_id, anthropic_client, last,
      requests_handled, svc, turn, html>>
OthersIdle ==
    /\ active_sessions = <<>>
    /\ ws_open = [w \in Websockets |-> FALSE]
    /\ requests_handled = 0
    /\ ws_session_id = [w \in Websockets |-> NoSession]
    /\ next_session_id = 1
    /\ anthropic_client = FALSE
    /\ last = NoLast
    /\ svc = SvcIdle
    /\ turn = TurnIdle
    /\ html = HtmlIdle

----------------------------------------------------------------------------
(* LlmChat._process_ui_generation_response and _is_html_incomplete *)

MaxScriptLen == 3       \* pieces of a script body

\* a stretch of text without brackets, as long as the window of _is_html_incomplete
Filler == "..."
Last200 == 200
PieceChars(t) == IF t = Filler THEN Last200 ELSE Len(t)

ScriptPieces == {"{", "}", "(", ")", "[", "ReactDOM.render", Filler}
ScriptBodies == UNION {[1..n -> ScriptPieces] : n \in 0..MaxScriptLen}
DocumentHead == <<"<html", ">", "<script", ">">>
\* a document whose script is closed, and the same document cut off inside the script
ClosedDocument(body) == DocumentHead \o body \o <<"</script>", "</html>">>
CutDocument(body) == DocumentHead \o body
FinishReasons == {"stop", "length", "max_tokens"}

\* html_content[-200:]: the piece at i lies within the last 200 characters
RECURSIVE CharsFrom(_, _)
CharsFrom(text, i) == IF i > Len(text) THEN 0 ELSE PieceChars(text[i]) + CharsFrom(text, i + 1)
InLast200(text, i) == CharsFrom(text, i + 1) + 1 <= Last200

\* re.search(opening + '[^' + closing + ']*$', last_200)
unclosed_in_last_200(text, opening, closing) ==
    \E i \in 1..Len(text) :
        /\ text[i] = opening
        /\ InLast200(text, i)
        /\ \A j \in (i + 1)..Len(text) : text[j] # closing

Count(text, t) == Cardinality({i \in 1..Len(text) : text[i] = t})

\* LlmChat._is_html_incomplete (llm_chat.py 978-1029)
always_incomplete(html_content) == TRUE
_is_html_incomplete(html_content) ==
    \/ html_content = <<>>
    \/ Strip(html_content) = <<>>
    \/ Strip(html_content)[Len(Strip(html_content))] # "</html>"
    \/ Count(html_content, "ReactDOM.render") = 0
    \/ /\ Count(html_content, "<script") > 0
       /\ Count(html_content, "<script") # Count(html_content, "</script>")
    \/ unclosed_in_last_200(html_content, "{", "}")
    \/ unclosed_in_last_200(html_content, "(", ")")
    \/ unclosed_in_last_200(html_content, "[", "]")

\* llm_chat.py 585: is_truncated
is_truncated(finish_reason) == finish_reason \in {"max_tokens", "length"}

\* llm_chat.py 604: the condition under which INCOMPLETE HTML DETECTED is logged
classified_incomplete(html_content, finish_reason) ==
    is_truncated(finish_reason) \/ _is_html_incomplete(html_content)

ProcessInit ==
    /\ OthersIdle
    /\ call \in {[fn |-> "_process_ui_generation_response", pc |-> "called", raw_html |-> d,
               closed |-> c, body |-> b, finish_reason |-> f,
               incomplete |-> FALSE, returned |-> None] :
                 d \in {<<>>}, c \in {FALSE}, b \in {<<>>}, f \in FinishReasons}
            \cup
            {[fn |-> "_process_ui_generation_response", pc |-> "called",
               raw_html |-> IF c THEN ClosedDocument(b) ELSE CutDocument(b),
               closed |-> c, body |-> b, finish_reason |-> f,
               incomplete |-> FALSE, returned |-> None] :
                 c \in BOOLEAN, b \in ScriptBodies, f \in FinishReasons}

\* _process_ui_generation_response: extraction and the incompleteness check
ProcessExtract ==
    /\ call.fn = "_process_ui_generation_response"
    /\ call.pc = "called"
    /\ LET processed == _process_ui_generation_response(call.raw_html)
       IN  call' = [call EXCEPT !.pc = "classified",
                       !.incomplete = classified_incomplete(processed.html_content,
                                                            call.finish_reason),
                       !.returned = Some(processed)]
    /\ UNCHANGED other_vars

\* _process_ui_generation_response: return {"html_content": html_content}
ProcessReturn ==
    /\ call.fn = "_process_ui_generation_response"
    /\ call.pc = "classified"
    /\ call' = [call EXCEPT !.pc = "returned"]
    /\ UNCHANGED other_vars

ProcessNext == ProcessExtract \/ ProcessReturn

SpecProcess == ProcessInit /\ [][ProcessNext]_vars

----------------------------------------------------------------------------
(* LlmChat._build_conversation_context and _parse_conversation_to_messages *)

MaxMessages == 2        \* previous messages of a conversation

Roles == {"user", "assistant", "system"}
\* message contents: one line, empty, holding ": ", holding a newline, and
\* holding a newline followed by what reads as another message
Contents ==
    {<<"a">>, <<>>, <<"a", ": ", "b">>, <<"a", "\n", "b">>, <<"a", "\n", "User", ": ", "b">>}
Messages == {[role |-> r, content |-> c] : r \in Roles, c \in Contents}
MessageLists == UNION {[1..n -> Messages] : n \in 0..MaxMessages}

\* str.lower() of the pieces a role can be written with
Lower(t) ==
    CASE t = "User" -> "user"
      [] t = "Assistant" -> "assistant"
      [] t = "System" -> "system"
      [] OTHER -> t

\* conversation_context.split("\n")
RECURSIVE split_lines(_, _)
split_lines(text, line) ==
    IF text = <<>> THEN <<line>>
    ELSE IF Head(text) = "\n" THEN <<line>> \o split_lines(Tail(text), <<>>)
    ELSE split_lines(Tail(text), Append(line, Head(text)))

\* line.split(": ", 1)
split_role(line) ==
    LET seps == {i \in 1..Len(line) : line[i] = ": "}
    IN  IF seps = {} THEN <<line>>
        ELSE <<SubSeq(line, 1, Min(seps) - 1), SubSeq(line, Min(seps) + 1, Len(line))>>

\* llm_chat.py 136-144: the loop over the lines
RECURSIVE parse_lines(_)
parse_lines(lines) ==
    IF lines = <<>> THEN <<>>
    ELSE LET line == Head(lines)
             parts == split_role(line)
         IN  IF Strip(line) = <<>> THEN parse_lines(Tail(lines))
             ELSE IF Len(parts) = 2 /\ Len(parts[1]) = 1 /\ Lower(parts[1][1]) \in Roles THEN
                 <<[role |-> Lower(parts[1][1]), content |-> parts[2]]>>
                 \o parse_lines(Tail(lines))
             ELSE parse_lines(Tail(lines))

\* LlmChat._parse_conversation_to_messages (llm_chat.py 130-146)
_parse_conversation_to_messages(conversation_context) ==
    IF conversation_context = NoHistory THEN <<>>
    ELSE parse_lines(split_lines(conversation_context, <<>>))

ContextInit ==
    /\ OthersIdle
    /\ call \in {[fn |-> "_build_conversation_context", pc |-> "called", previous_messages |-> m,
               conversation_context |-> <<>>, parsed_messages |-> <<>>] : m \in MessageLists}

\* generate_response: conversation_context = self._build_conversation_context(...)
BuildContext ==
    /\ call.fn = "_build_conversation_context"
    /\ call.pc = "called"
    /\ call' = [call EXCEPT !.pc = "built",
                   !.conversation_context = _build_conversation_context(call.previous_messages)]
    /\ UNCHANGED other_vars

\* _generate_text_response_with_provider: parsed_messages = self._parse_conversation_to_messages(...)
ParseContext ==
    /\ call.fn = "_build_conversation_context"
    /\ call.pc = "built"
    /\ call' = [call EXCEPT !.pc = "parsed",
                   !.parsed_messages = _parse_conversation_to_messages(call.conversation_context)]
    /\ UNCHANGED other_vars

ContextNext == BuildContext \/ ParseContext

SpecContext == ContextInit /\ [][ContextNext]_vars

----------------------------------------------------------------------------
(* The prompt builders (app/api/core/prompts.py) and                       *)
(* LlmChat._prepare_ui_generation_context                                  *)

MaxTools == 2

ToolIds == {"t1", "t2", "t3"}
\* the schemas a stored tool carries: a JSON Schema of the given type, or none
SchemaOf(id) ==
    CASE id = "t1" -> [inputSchema |-> Some("object"), outputSchema |-> Some("array")]
      [] id = "t2" -> [inputSchema |-> Some("object"), outputSchema |-> None]
      [] OTHER -> [inputSchema |-> None, outputSchema |-> None]
PromptTools ==
    {[id |-> id, name |-> <<"name-", id>>, description |-> <<"does ", id>>, title |-> title,
      is_enabled |-> en, inputSchema |-> SchemaOf(id).inputSchema,
      outputSchema |-> SchemaOf(id).outputSchema] :
         id \in ToolIds, title \in {<<>>, <<"Title">>}, en \in BOOLEAN}
\* tool lists as the tool table delivers them: one row per tool id
PromptToolLists ==
    {l \in SeqsUpTo(PromptTools, MaxTools) :
         \A i, j \in DOMAIN l : l[i].id = l[j].id => i = j}

\* json.dumps(schema, indent=4) of the schema {"type": <type>}
json_dumps(schema) == <<"{\n    \"type\": \"", schema, "\"\n}">>

\* the loops' test on is_enabled (prompts.py 22-23, 84-85)
skip_no_tool(tool) == FALSE
skip_tool(tool) == ~tool.is_enabled

\* the entry of one tool in build_text_response_prompt (prompts.py 25-31)
text_tool_info(tool) ==
    <<"- Tool ID: ", tool.id, "\n- Tool Name: ">> \o tool.name
        \o <<"\n- Tool Description: ">> \o tool.description
        \o (IF tool.title # <<>> THEN <<"\n- Tool Title: ">> \o tool.title ELSE <<>>)

\* the entry of one tool in build_ui_generation_prompt_base (prompts.py 87-109)
ui_tool_info(tool) ==
    <<"\n    - Tool ID: ", tool.id, "\n    - Tool Name: ">> \o tool.name
        \o <<"\n    - Tool Description: ">> \o tool.description
        \o (IF tool.title # <<>> THEN <<"\n    - Tool Title: ">> \o tool.title ELSE <<>>)
        \o (IF tool.inputSchema # None
            THEN <<"\n    - Input Schema (JSON Schema for parameters):\n">>
                     \o json_dumps(tool.inputSchema[1])
            ELSE <<>>)
        \o (IF tool.outputSchema # None
            THEN <<"\n    - Output Schema (JSON Schema for return value):\n">>
                     \o json_dumps(tool.outputSchema[1])
            ELSE <<>>)

\* the loop over tools: tool_details (prompts.py 20-31, 81-109)
RECURSIVE text_tool_details(_)
text_tool_details(tools) ==
    IF tools = <<>> THEN <<>>
    ELSE IF skip_tool(tools[1]) THEN text_tool_details(Tail(tools))
    ELSE <<text_tool_info(tools[1])>> \o text_tool_details(Tail(tools))
RECURSIVE ui_tool_details(_)
ui_tool_details(tools) ==
    IF tools = <<>> THEN <<>>
    ELSE IF skip_tool(tools[1]) THEN ui_tool_details(Tail(tools))
    ELSE <<ui_tool_info(tools[1])>> \o ui_tool_details(Tail(tools))

\* prompts.py 32 and 111
tools_section(tool_details) ==
    IF tool_details # <<>> THEN Join(tool_details, <<"\n\n">>) ELSE <<"No tools available.">>

\* the fixed parts of the two prompts, one piece each
TextPromptHead == "You are an assistant helping users create a UI based on the few tools."
TextPromptRules == "CRITICAL OUTPUT REQUIREMENTS"
UiPromptHead == "You are an expert React UI component generator."
ModifyingExistingUi == "CRITICAL - MODIFYING EXISTING UI - ABSOLUTE REQUIREMENTS"
CodeQualityRequirements == "CODE QUALITY REQUIREMENTS"
OutputFormatRequirements == "OUTPUT FORMAT REQUIREMENTS"

\* build_text_response_prompt (prompts.py 8-57)
build_text_response_prompt(user_message, tools) ==
    <<TextPromptHead, "\n\n# User's Request and generated HTML content:\n">> \o user_message
        \o <<"\n\n# Tool Details:\n">> \o tools_section(text_tool_details(tools))
        \o <<"\n\n", TextPromptRules>>

\* Design rows (app/db/models/designs.py); the table in insertion order, so a
\* row's position is its created_at
MaxDesigns == 3
TwoMegabytes == 2097152
ProjectIds == {"p1"}
DesignRows ==
    {[design_type |-> ty, filename |-> <<ty, "-", ToString(size)>>, content_type |-> ct,
      file_size |-> size, project_id |-> p] :
         ty \in {"logo", "ux_design"}, ct \in {"image/png", "application/pdf"},
         size \in {1024, TwoMegabytes}, p \in ProjectIds}
DesignTables == SeqsUpTo(DesignRows, MaxDesigns)

Reverse(s) == [i \in 1..Len(s) |-> s[Len(s) + 1 - i]]
Take(s, n) == SubSeq(s, 1, Min({n, Len(s)}))

\* a positional parameter the caller did not supply
Missing == <<"missing">>

\* DesignRepository.list_by_type(design_type, project_id)
\* (app/db/storage/design_repository.py 61-66): both parameters are required,
\* the rows come ORDER BY created_at DESC
list_by_type(table, design_type, project_id) ==
    IF project_id = Missing THEN Raise("TypeError")
    ELSE LET Matches(row) == row.design_type = design_type /\ row.project_id = project_id
         IN  Ok(SelectSeq(Reverse(table), Matches))

\* content_type.startswith("image/")
IsImage(content_type) == content_type \in {"image/png"}
\* the filter of llm_chat.py 495 and 502
design_fits(row) == row.file_size < TwoMegabytes /\ IsImage(row.content_type)

\* one of the two list comprehensions of _fetch_designs_for_llm:
\* [d for d in repo.list_by_type(TYPE)[:5] if ...][:3]
latest_designs(table, design_type) ==
    LET listed == list_by_type(table, design_type, Missing)
    IN  IF listed.exc # "" THEN listed
        ELSE Ok(Take(SelectSeq(Take(listed.value, 5), design_fits), 3))

NoDesigns == [logos |-> <<>>, ux_designs |-> <<>>]

\* LlmChat._fetch_designs_for_llm (llm_chat.py 481-511)
_fetch_designs_for_llm(table) ==
    LET logos == latest_designs(table, "logo")
        ux_designs == latest_designs(table, "ux_design")
    IN  IF logos.exc # "" \/ ux_designs.exc # "" THEN NoDesigns
        ELSE [logos |-> logos.value, ux_designs |-> ux_designs.value]

\* the lines of one kind of design in the designs section (prompts.py 127-163)
RECURSIVE design_lines(_)
design_lines(rows) ==
    IF rows = <<>> THEN <<>>
    ELSE <<"    - ">> \o rows[1].filename
             \o <<" (", rows[1].content_type, ", ", ToString(rows[1].file_size), " bytes)\n">>
             \o design_lines(Tail(rows))

\* prompts.py 118-164
designs_section(designs) ==
    IF designs = None THEN <<>>
    ELSE IF designs[1].logos = <<>> /\ designs[1].ux_designs = <<>> THEN <<>>
    ELSE <<"\n\n- Available Designs for Visual Inspiration:\n">>
             \o (IF designs[1].logos # <<>>
                 THEN <<"  * Logos (included as images in the message):\n">>
                          \o design_lines(designs[1].logos)
                          \o <<"    CRITICAL: These logo images are included\n">>
                 ELSE <<>>)
             \o (IF designs[1].ux_designs # <<>>
                 THEN <<"  * UX Designs (included as images in the message):\n">>
                          \o design_lines(designs[1].ux_designs)
                          \o <<"    CRITICAL: These UX design images are included\n">>
                 ELSE <<>>)

\* text[:n], for texts whose pieces end on the cut
RECURSIVE TakeChars(_, _)
TakeChars(text, n) ==
    IF text = <<>> \/ PieceChars(text[1]) > n THEN <<>>
    ELSE <<text[1]>> \o TakeChars(Tail(text), n - PieceChars(text[1]))

\* prompts.py 113-116
formatted_context(conversation_context) ==
    IF CharsFrom(conversation_context, 1) > 500 THEN TakeChars(conversation_context, 1000)
    ELSE conversation_context

\* build_ui_generation_prompt_base (prompts.py 60-322)
build_ui_generation_prompt_base(tools, user_message, conversation_context, has_existing_ui, designs) ==
    <<UiPromptHead, "\n\nCONTEXT:\n- Tools:\n">> \o tools_section(ui_tool_details(tools))
        \o <<"\n- User's Request: ">> \o user_message
        \o <<"\n- Conversation History: ">> \o formatted_context(conversation_context)
        \o designs_section(designs) \o <<"\n\n">>
        \o (IF has_existing_ui THEN <<"\n", ModifyingExistingUi>> ELSE <<>>)
        \o <<"\n", CodeQualityRequirements, "\n\n", OutputFormatRequirements>>

\* build_ui_generation_user_message(user_message) (prompts.py 325-348): the
\* keyword arguments of a call are bound to the one parameter there is
build_ui_generation_user_message(keywords) ==
    IF \E k \in DOMAIN keywords : k # "user_message" THEN Raise("TypeError")
    ELSE Ok(<<"Generate a new or update the existing React HTML UI for tools based on the user's request: ">>
                \o keywords.user_message \o <<"\n\nIMPORTANT: If design images">>)

\* UiWidgetResourceRepository.get_latest_by_widget_id(widget_id, project_id)
\* (app/db/storage/ui_widget_resource_repository.py 117-135); the table in
\* insertion order
get_latest_by_widget_id(resources, widget_id, project_id) ==
    IF project_id = Missing THEN Raise("TypeError")
    ELSE LET Matches(row) == row.widget_id = widget_id /\ row.project_id = project_id
             rows == SelectSeq(Reverse(resources), Matches)
         IN  Ok(IF rows = <<>> THEN None ELSE Some(rows[1]))

\* LlmChat._extract_html_from_ui_resource (llm_chat.py 116-128), for the
\* envelopes generate_response builds
_extract_html_from_ui_resource(ui_resource) ==
    IF ui_resource = None THEN None
    ELSE IF ui_resource[1].resource.text # <<>> THEN Some(ui_resource[1].resource.text)
    ELSE None

\* LlmChat._prepare_ui_generation_context (llm_chat.py 513-561): the lookup of
\* the latest resource in its try (528-539), the designs, the system prompt,
\* and the call of build_ui_generation_user_message with the keywords tools,
\* user_message and existing_html (555-559)
_prepare_ui_generation_context(resources, designs_table, widget_id, tools, user_message, conversation_context) ==
    LET latest_resource == get_latest_by_widget_id(resources, widget_id, Missing)
        existing_ui == IF latest_resource.exc # "" \/ latest_resource.value = None THEN None
                       ELSE IF latest_resource.value[1].resource = None THEN None
                       ELSE latest_resource.value[1].resource
        existing_html == _extract_html_from_ui_resource(existing_ui)
        designs == _fetch_designs_for_llm(designs_table)
        system_prompt == build_ui_generation_prompt_base(
                             tools, user_message, conversation_context,
                             existing_html # None, Some(designs))
        user_content == build_ui_generation_user_message(
                            [tools |-> tools, user_message |-> user_message,
                             existing_html |-> existing_html])
    IN  [existing_html |-> existing_html, designs |-> designs,
         system_prompt |-> system_prompt,
         result |-> IF user_content.exc # "" THEN user_content
                    ELSE Ok(<<existing_html, designs, system_prompt, user_content.value>>)]

\* The calls of the prompt builders
PromptUserMessages == {<<"hi">>, <<"make it blue">>}
LongContext == <<Filler, Filler, Filler, Filler, Filler, Filler>>
PromptContexts == {NoHistory, LongContext}
ALogo == [design_type |-> "logo", filename |-> <<"logo", "-", "1024">>,
          content_type |-> "image/png", file_size |-> 1024, project_id |-> "p1"]
PromptDesigns == {None, Some(NoDesigns), Some([logos |-> <<ALogo>>, ux_designs |-> <<>>])}
\* the ui_widget_resource table: no row, or a row of widget w-1 with a document
StoredDocument == <<"<html", ">", "x", "</html>">>
ResourceTables ==
    {<<>>,
     <<[id |-> 1, widget_id |-> "w-1", project_id |-> "p1",
        resource |-> assemble_ui_resource("w-1", Some([html_content |-> StoredDocument]))]>>}

NoPrompt == <<>>
PromptCall(fn, tools, user_message, conversation_context, has_existing_ui, designs, resources, designs_table, widget_id) ==
    [fn |-> fn, pc |-> "called", tools |-> tools, user_message |-> user_message,
     conversation_context |-> conversation_context, has_existing_ui |-> has_existing_ui,
     designs |-> designs, resources |-> resources, designs_table |-> designs_table,
     widget_id |-> widget_id, prompt |-> NoPrompt, result |-> Ok(<<>>)]

PromptInit ==
    /\ OthersIdle
    /\ call \in
        {PromptCall("build_text_response_prompt", tools, m, <<>>, FALSE, None, <<>>, <<>>, "")
             : tools \in PromptToolLists, m \in PromptUserMessages}
        \cup
        {PromptCall("build_ui_generation_prompt_base", tools, <<"hi">>, c, e, d, <<>>, <<>>, "")
             : tools \in PromptToolLists, c \in PromptContexts, e \in BOOLEAN,
               d \in PromptDesigns}
        \cup
        {PromptCall("_prepare_ui_generation_context", tools, <<"hi">>, NoHistory, FALSE, None,
                    r, t, w)
             : tools \in {l \in PromptToolLists : Len(l) <= 1}, r \in ResourceTables,
               t \in {<<>>, <<ALogo>>}, w \in {"w-1", "w-2"}}

BuildTextResponsePrompt ==
    /\ call.fn = "build_text_response_prompt"
    /\ call.pc = "called"
    /\ call' = [call EXCEPT !.pc = "returned",
                   !.prompt = build_text_response_prompt(call.user_message, call.tools)]
    /\ UNCHANGED other_vars

BuildUiGenerationPromptBase ==
    /\ call.fn = "build_ui_generation_prompt_base"
    /\ call.pc = "called"
    /\ call' = [call EXCEPT !.pc = "returned",
                   !.prompt = build_ui_generation_prompt_base(
                                  call.tools, call.user_message, call.conversation_context,
                                  call.has_existing_ui, call.designs)]
    /\ UNCHANGED other_vars

PrepareUiGenerationContext ==
    /\ call.fn = "_prepare_ui_generation_context"
    /\ call.pc = "called"
    /\ LET r == _prepare_ui_generation_context(
                    call.resources, call.designs_table, call.widget_id, call.tools,
                    call.user_message, call.conversation_context)
       IN  call' = [call EXCEPT !.pc = "returned", !.has_existing_ui = r.existing_html # None,
                       !.designs = Some(r.designs), !.prompt = r.system_prompt,
                       !.result = r.result]
    /\ UNCHANGED other_vars

PromptNext == BuildTextResponsePrompt \/ BuildUiGenerationPromptBase \/ PrepareUiGenerationContext

SpecPrompt == PromptInit /\ [][PromptNext]_vars

----------------------------------------------------------------------------
(* Calls of LlmChat._fetch_designs_for_llm on a design table *)

DesignsInit ==
    /\ OthersIdle
    /\ call \in {[fn |-> "_fetch_designs_for_llm", pc |-> "called", designs_table |-> t,
               designs |-> NoDesigns] : t \in DesignTables}

FetchDesigns ==
    /\ call.fn = "_fetch_designs_for_llm"
    /\ call.pc = "called"
    /\ call' = [call EXCEPT !.pc = "returned",
                   !.designs = _fetch_designs_for_llm(call.designs_table)]
    /\ UNCHANGED other_vars

DesignsNext == FetchDesigns

SpecDesigns == DesignsInit /\ [][DesignsNext]_vars

----------------------------------------------------------------------------
(* LLMClient (app/api/core/llm_client.py) *)

\* the system argument: None, the empty string, or a prompt
SystemArguments == {None, Some(<<>>), Some(<<"You are a JSON Schema expert.">>)}
\* `if system:`
system_given(system) == system # None /\ system[1] # <<>>

\* messages.copy(): a new list of the same message objects; working on the
\* caller's list itself would be the alternative
alias_messages(messages) == [is_callers_list |-> TRUE, items |-> messages]
copy_messages(messages) == [is_callers_list |-> FALSE, items |-> messages]

\* llm_client.py 95-99
with_system(items, system) ==
    IF ~system_given(system) THEN items
    ELSE LET system_message == [role |-> "system", content |-> system[1]]
         IN  IF items # <<>> /\ items[1].role = "system"
             THEN [items EXCEPT ![1] = system_message]
             ELSE <<system_message>> \o items

\* what litellm.completion does with the request
CompletionOutcomes == {"completes", "raises"}

CallInit ==
    /\ OthersIdle
    /\ call \in {[fn |-> "LLMClient.call", pc |-> "called", messages |-> m, given_messages |-> m,
               system |-> s, litellm_messages |-> <<>>, raised |-> ""] :
                  m \in MessageLists, s \in SystemArguments}

\* LLMClient.call (llm_client.py 69-126)
LlmClientCall(outcome) ==
    /\ call.fn = "LLMClient.call"
    /\ call.pc = "called"
    /\ LET copied == copy_messages(call.messages)
           litellm_messages == with_system(copied.items, call.system)
       IN  call' = [call EXCEPT !.pc = "returned",
                       !.litellm_messages = litellm_messages,
                       !.messages = IF copied.is_callers_list THEN litellm_messages ELSE @,
                       !.raised = IF outcome = "raises" THEN "Exception" ELSE ""]
    /\ UNCHANGED other_vars

CallNext == \E outcome \in CompletionOutcomes : LlmClientCall(outcome)

SpecCall == CallInit /\ [][CallNext]_vars

----------------------------------------------------------------------------
(* LLMClient._configure_provider (app/api/core/llm_client.py 29-67) on the   *)
(* settings of app/server/config.py                                          *)

LlmProviders == {"openai", "claude", "gemini", "mistral"}
\* an API key of the settings: unset (None), empty, or set
ApiKeys == {None, Some(""), Some("sk-1")}
ModelNames == {"", "m-1"}
ProviderSettingsRecords ==
    [llm_provider : LlmProviders,
     openai_api_key : ApiKeys, openai_model : ModelNames,
     anthropic_api_key : ApiKeys, claude_model : ModelNames,
     gemini_api_key : ApiKeys, gemini_model : ModelNames]

RaiseWith(kind, message) == [exc |-> kind, value |-> message]

\* os.environ[name] = value: the value has to be a str
environ_set(environ, name, value) ==
    IF value = None THEN RaiseWith("TypeError", <<"str expected, not NoneType">>)
    ELSE Ok([environ EXCEPT ![name] = Some(value[1])])

EnvironNames == {"OPENAI_API_KEY", "ANTHROPIC_API_KEY", "GEMINI_API_KEY"}
NoEnviron == [n \in EnvironNames |-> None]

\* one branch of _configure_provider: export the key, require the model
configure_branch(environ, key_name, api_key, label, model_variable, model, prefix) ==
    LET exported == environ_set(environ, key_name, api_key)
    IN  IF exported.exc # "" THEN [environ |-> environ, result |-> exported]
        ELSE IF model = ""
        THEN [environ |-> exported.value,
              result |-> RaiseWith("ValueError",
                                   <<label, " model is not configured. ", "Please set ",
                                     model_variable, " in your environment variables.">>)]
        ELSE [environ |-> exported.value, result |-> Ok(prefix \o <<model>>)]

\* LLMClient._configure_provider (llm_client.py 29-67)
_configure_provider(environ, settings) ==
    CASE settings.llm_provider = "openai" ->
             configure_branch(environ, "OPENAI_API_KEY", settings.openai_api_key, "OpenAI",
                              "OPENAI_MODEL", settings.openai_model, <<>>)
      [] settings.llm_provider = "claude" ->
             configure_branch(environ, "ANTHROPIC_API_KEY", settings.anthropic_api_key, "Claude",
                              "CLAUDE_MODEL", settings.claude_model, <<"anthropic/">>)
      [] settings.llm_provider = "gemini" ->
             configure_branch(environ, "GEMINI_API_KEY", settings.gemini_api_key, "Gemini",
                              "GEMINI_MODEL", settings.gemini_model, <<"gemini/">>)
      [] OTHER ->
             [environ |-> environ,
              result |-> RaiseWith("ValueError",
                                   <<"Unknown provider: ", settings.llm_provider>>)]

ConfigureInit ==
    /\ OthersIdle
    /\ call \in {[fn |-> "LLMClient.__init__", pc |-> "called", settings |-> s,
               environ |-> NoEnviron, result |-> Ok(<<>>)] : s \in ProviderSettingsRecords}

\* LLMClient.__init__ (llm_client.py 23-27)
ConfigureProvider ==
    /\ call.fn = "LLMClient.__init__"
    /\ call.pc = "called"
    /\ LET r == _configure_provider(call.environ, call.settings)
       IN  call' = [call EXCEPT !.pc = "returned", !.environ = r.environ, !.result = r.result]
    /\ UNCHANGED other_vars

ConfigureNext == ConfigureProvider

SpecConfigure == ConfigureInit /\ [][ConfigureNext]_vars

----------------------------------------------------------------------------
(* UiWidgetResourceRepository.create                                        *)
(* (app/db/storage/ui_widget_resource_repository.py 19-87)                  *)

MaxCreates == 30
MAX_RESOURCES_PER_WIDGET == 20

\* the UiWidgetResource model (app/db/models/widgets.py 37-43) has the fields
\* id, widget_id, created_at, updated_at and resource
ResourceDocuments == {<<"<html", ">", "x", "</html>">>, <<"<html", ">", "</html>">>}
\* the model object the callers build: UiWidgetResource(id=..., widget_id=..., resource=...)
NewUiWidgetResource(id, widget_id, document) ==
    [id |-> Some(id), widget_id |-> Some(widget_id), created_at |-> None, updated_at |-> None,
     resource |-> assemble_ui_resource(widget_id, Some([html_content |-> document]))]

\* resource_data.model_dump(exclude_none=True, exclude={"created_at", "updated_at"}):
\* the fields of the model that are set, by name
model_dump(resource_data) ==
    LET kept == {f \in DOMAIN resource_data :
                     f \notin {"created_at", "updated_at"} /\ resource_data[f] # None}
    IN  [f \in kept |-> resource_data[f][1]]

\* the rows of a widget in a project, oldest first (ORDER BY created_at ASC)
rows_of_widget(table, widget_id, project_id) ==
    LET Matches(row) == row.widget_id = widget_id /\ row.project_id = project_id
    IN  SelectSeq(table, Matches)

\* the DELETE of lines 44-57: the to_delete oldest rows of the widget
delete_oldest(table, widget_id, project_id, to_delete) ==
    LET oldest == Range(Take(rows_of_widget(table, widget_id, project_id), to_delete))
        Stays(row) == row \notin oldest
    IN  SelectSeq(table, Stays)

\* UiWidgetResourceRepository.create: the table after the call and what the
\* call returns; an exception inside the transaction rolls it back
create(table, resource_data, now) ==
    LET data == model_dump(resource_data)
    IN  IF "project_id" \notin DOMAIN data
        THEN [table |-> table, result |-> RaiseWith("KeyError", <<"project_id">>)]
        ELSE LET project_id == data["project_id"]
                 current_count == Len(rows_of_widget(table, data["widget_id"], project_id))
                 pruned == IF current_count >= MAX_RESOURCES_PER_WIDGET
                           THEN delete_oldest(table, data["widget_id"], project_id,
                                              current_count - MAX_RESOURCES_PER_WIDGET + 1)
                           ELSE table
                 row == [id |-> data["id"], widget_id |-> data["widget_id"],
                         resource |-> data["resource"], project_id |-> project_id,
                         created_at |-> now]
             IN  [table |-> Append(pruned, row), result |-> Ok(row)]

NoResource == [id |-> None, widget_id |-> None, created_at |-> None, updated_at |-> None,
               resource |-> None]

CreateInit ==
    /\ OthersIdle
    /\ call = [fn |-> "UiWidgetResourceRepository.create", creates |-> 0, table |-> <<>>,
            table_before |-> <<>>, resource_data |-> NoResource, result |-> Ok(<<>>)]

\* one call of create, as chat.py 129-136 and widgets.py 109-113, 424-430 make it
CreateResource(widget_id, document) ==
    /\ call.fn = "UiWidgetResourceRepository.create"
    /\ call.creates < MaxCreates
    /\ LET resource_data == NewUiWidgetResource(call.creates + 1, widget_id, document)
           r == create(call.table, resource_data, call.creates + 1)
       IN  call' = [call EXCEPT !.creates = @ + 1, !.table_before = call.table,
                       !.table = r.table, !.resource_data = resource_data,
                       !.result = r.result]
    /\ UNCHANGED other_vars

CreateNext ==
    \E widget_id \in WidgetIds, document \in ResourceDocuments :
        CreateResource(widget_id, document)

SpecCreate == CreateInit /\ [][CreateNext]_vars

----------------------------------------------------------------------------
(* extract_tools_from_openapi_spec (app/api/public/tools.py 981-1206), on    *)
(* parsed specs whose operations carry no summary, description or tags       *)

\* the depth of nested calls at which the interpreter raises RecursionError;
\* every terminating resolution of the schemas below stays under it
MaxDepth == 6

\* JSON Schemas: a string, a $ref to a component, an object with one property
StringSchema == [kind |-> "string"]
RefTo(name) == [kind |-> "ref", name |-> name]
ObjectWith(schema) == [kind |-> "object", property |-> schema]
SchemaNames == {"A", "B"}
\* components.schemas: A is a string, refers to itself or to B; B is a string or refers to A
ComponentSchemas ==
    [A : {StringSchema, ObjectWith(RefTo("A")), ObjectWith(RefTo("B"))},
     B : {StringSchema, ObjectWith(RefTo("A"))}]

\* resolve_ref: schemas.get(schema_name, {}), None for the empty dict
resolve_ref(schemas, name) == IF name \in DOMAIN schemas THEN Some(schemas[name]) ELSE None

\* resolve_schema (tools.py 1040-1070), with the depth of the recursion
RECURSIVE resolve_schema(_, _, _)
resolve_schema(schemas, schema, depth) ==
    IF depth > MaxDepth THEN Raise("RecursionError")
    ELSE IF schema.kind = "ref"
    THEN LET resolved == resolve_ref(schemas, schema.name)
         IN  IF resolved # None THEN resolve_schema(schemas, resolved[1], depth + 1)
             ELSE Ok(schema)
    ELSE IF schema.kind = "object"
    THEN LET property == resolve_schema(schemas, schema.property, depth + 1)
         IN  IF property.exc # "" THEN property ELSE Ok(ObjectWith(property.value))
    ELSE Ok(schema)

\* operation objects: operationId, the JSON schema of the request body and of
\* the first 2xx response, each optional
GetOperations ==
    [operationId : {None, Some(<<"_", "x">>)}, body : {None}, response : {None, Some(RefTo("B"))}]
PostOperations ==
    [operationId : {None, Some(<<"Do", "-", "it", " ", "now">>)},
     body : {None, Some(RefTo("A"))}, response : {None}]
\* a path item: its keys in order, an operation object or something else under each
PathItems ==
    {SelectSeq(<<p, g, q>>, LAMBDA e : e # None) :
         p \in {None, [key |-> "parameters", value |-> None]},
         g \in {None} \cup {[key |-> "get", value |-> Some(o)] : o \in GetOperations},
         q \in {None} \cup {[key |-> "post", value |-> Some(o)] : o \in PostOperations}}
PathA == <<"/", "a">>
PathUsersId == <<"/", "users", "/", "{", "id", "}">>
OpenApiPaths ==
    {SelectSeq(<<a, u>>, LAMBDA e : e # None) :
         a \in {None} \cup {[path |-> PathA, path_item |-> i] : i \in PathItems},
         u \in {None} \cup {[path |-> PathUsersId, path_item |-> i] : i \in PathItems}}
OpenApiSpecs == [paths : OpenApiPaths, schemas : ComponentSchemas]

HttpMethods == {"get", "post", "put", "delete", "patch", "head", "options", "trace"}
\* str.upper() of a method key
Upper(method) ==
    CASE method = "get" -> "GET"
      [] method = "post" -> "POST"
      [] OTHER -> method
\* str.lower() of a piece of an operationId
LowerPiece(t) ==
    CASE t = "Do" -> "do"
      [] t = "GET" -> "get"
      [] t = "POST" -> "post"
      [] OTHER -> t
\* .replace(" ", "_").replace("-", "_") of a piece
Underscored(t) == IF t \in {" ", "-"} THEN "_" ELSE t

\* str.strip("_")
RECURSIVE LStripUnderscore(_)
LStripUnderscore(text) ==
    IF text # <<>> /\ text[1] = "_" THEN LStripUnderscore(Tail(text)) ELSE text
StripUnderscore(text) == Reverse(LStripUnderscore(Reverse(LStripUnderscore(text))))

\* path.replace('/', '_').replace('{', '').replace('}', '').strip('_')
path_name(path) ==
    LET replaced == [i \in DOMAIN path |-> IF path[i] = "/" THEN "_" ELSE path[i]]
    IN  StripUnderscore(SelectSeq(replaced, LAMBDA t : t \notin {"{", "}"}))

\* tools.py 1090 and 1095-1097
tool_name_of(method, path, operation) ==
    LET operation_id == IF operation.operationId # None /\ operation.operationId[1] # <<>>
                        THEN operation.operationId[1]
                        ELSE <<Upper(method), "_">> \o path_name(path)
        tool_name == [i \in DOMAIN operation_id |-> Underscored(LowerPiece(operation_id[i]))]
    IN  IF tool_name = <<>> \/ tool_name[1] = "_"
        THEN <<method, "_">> \o path_name(path)
        ELSE tool_name

\* the body of the loop for one operation (tools.py 1089-1201)
tool_of(schemas, method, path, operation) ==
    LET body == IF operation.body = None THEN Ok(None)
                ELSE LET r == resolve_schema(schemas, operation.body[1], 1)
                     IN  IF r.exc # "" THEN r ELSE Ok(Some(r.value))
        response == IF operation.response = None THEN Ok(None)
                    ELSE LET r == resolve_schema(schemas, operation.response[1], 1)
                         IN  IF r.exc # "" THEN r ELSE Ok(Some(r.value))
    IN  IF body.exc # "" THEN body
        ELSE IF response.exc # "" THEN response
        ELSE Ok([name |-> tool_name_of(method, path, operation),
                 title |-> <<Upper(method), " ">> \o path,
                 inputSchema |-> body.value, outputSchema |-> response.value,
                 annotations |-> [path |-> path, method |-> Upper(method)]])

\* the inner loop: for method, operation in path_item.items()
RECURSIVE tools_of_path_item(_, _, _, _)
tools_of_path_item(schemas, path, path_item, tools) ==
    IF path_item = <<>> THEN Ok(tools)
    ELSE LET method == path_item[1].key
             operation == path_item[1].value
         IN  IF method \notin HttpMethods \/ operation = None
             THEN tools_of_path_item(schemas, path, Tail(path_item), tools)
             ELSE LET tool == tool_of(schemas, method, path, operation[1])
                  IN  IF tool.exc # "" THEN tool
                      ELSE tools_of_path_item(schemas, path, Tail(path_item),
                                              Append(tools, tool.value))

\* the outer loop: for path, path_item in paths.items()
RECURSIVE tools_of_paths(_, _, _)
tools_of_paths(schemas, paths, tools) ==
    IF paths = <<>> THEN Ok(tools)
    ELSE LET r == tools_of_path_item(schemas, paths[1].path, paths[1].path_item, tools)
         IN  IF r.exc # "" THEN r ELSE tools_of_paths(schemas, Tail(paths), r.value)

\* extract_tools_from_openapi_spec on a parsed spec (tools.py 1027-1206)
extract_tools_from_openapi_spec(spec_data) ==
    IF spec_data.paths = <<>> THEN Ok(<<>>)
    ELSE tools_of_paths(spec_data.schemas, spec_data.paths, <<>>)

ExtractInit ==
    /\ OthersIdle
    /\ call \in {[fn |-> "extract_tools_from_openapi_spec", pc |-> "called", spec_data |-> s,
               result |-> Ok(<<>>)] : s \in OpenApiSpecs}

ExtractTools ==
    /\ call.fn = "extract_tools_from_openapi_spec"
    /\ call.pc = "called"
    /\ call' = [call EXCEPT !.pc = "returned",
                   !.result = extract_tools_from_openapi_spec(call.spec_data)]
    /\ UNCHANGED other_vars

ExtractNext == ExtractTools

SpecExtract == ExtractInit /\ [][ExtractNext]_vars

----------------------------------------------------------------------------
(* McpChatService.connect_to_mcp_server step by step (mcp_chat_service.py 43-110) *)

\* config.credentials: the attribute may be absent from the configuration
\* class (reading it raises AttributeError), None, or a dict of headers.
Credentials(present, value) == [present |-> present, value |-> value]
CredentialValues ==
    {Credentials(FALSE, None), Credentials(TRUE, None), Credentials(TRUE, Some(<<>>)),
     Credentials(TRUE, Some(<<<<"Authorization", "Bearer t">>>>))}
McpServerTransports == {"streamable-http", "stdio", "sse"}
McpServerConfigurations ==
    [server_url : Servers, transport : McpServerTransports, credentials : CredentialValues]

\* How far the calls inside the try block get (mcp_chat_service.py 77-86).
ConnectSteps ==
    {"ok", "transport_enter_raises", "session_enter_raises", "initialize_raises",
     "list_tools_raises"}

\* mcp_chat_service.py 64-66, 72: the headers handed to streamablehttp_client
headers_of(credentials) ==
    IF credentials.value # None /\ credentials.value[1] # <<>> THEN credentials.value
    ELSE None

\* The contexts entered and not exited when the try block is left at `step`:
\* transport.__aenter__ (77) and session.__aenter__ (82) enter them, and
\* nothing in the function exits one.
entered_at(step) ==
    CASE step = "transport_enter_raises" -> {}
      [] step = "session_enter_raises" -> {"transport"}
      [] OTHER -> {"transport", "session"}

\* mcp_chat_service.py 108-110: except Exception as e: log; raise.  The
\* exception of the failing step is re-raised as it is.
connect_except(step) ==
    [exc |-> "ConnectError", value |-> <<step>>, open |-> entered_at(step)]

connect_steps(config, step) ==
    IF config.transport # "streamable-http" THEN
        [exc |-> "ValueError", value |-> <<>>, open |-> {}]
    ELSE IF ~config.credentials.present THEN
        [exc |-> "AttributeError", value |-> <<>>, open |-> {}]
    ELSE IF step # "ok" THEN connect_except(step)
    ELSE [exc |-> "",
          value |-> [headers |-> headers_of(config.credentials),
                     tools |-> [i \in 1..Len(ServerTools(config.server_url)) |->
                                   [name |-> ServerTools(config.server_url)[i],
                                    server |-> config.server_url]]],
          open |-> entered_at(step)]

ConnectInit ==
    /\ OthersIdle
    /\ call \in {[fn |-> "connect_to_mcp_server", pc |-> "called", config |-> c,
               result |-> [exc |-> "", value |-> <<>>, open |-> {}]] :
                   c \in McpServerConfigurations}

ConnectToMcpServer(step) ==
    /\ call.fn = "connect_to_mcp_server"
    /\ call.pc = "called"
    /\ call' = [call EXCEPT !.pc = "returned", !.result = connect_steps(call.config, step)]
    /\ UNCHANGED other_vars

ConnectNext == \E step \in ConnectSteps : ConnectToMcpServer(step)

SpecConnect == ConnectInit /\ [][ConnectNext]_vars

----------------------------------------------------------------------------
(* The requests of two connections interleaved at the awaits of the handler:      *)
(* a 'message' request awaits the service between reading the session tuple       *)
(* (mcp_chat.py 161) and storing it back (198), an 'add_server' request awaits    *)
(* connect_to_mcp_server (107) between reading the tuple (99) and storing (123).  *)
(* server_connections, tool_to_session_map and conversation_history are the       *)
(* session's own list and dict objects, changed in place; the tools list is a     *)
(* local of the request.                                                          *)

NoFrame == [op |-> "none", session_id |-> NoSession, tools |-> <<>>, server_url |-> ""]
InFlight(w) == call.frame[w] # NoFrame

InterleavedInit ==
    /\ active_sessions = <<>>
    /\ ws_open = [w \in Websockets |-> TRUE]
    /\ requests_handled = 0
    /\ ws_session_id = [w \in Websockets |-> NoSession]
    /\ next_session_id = 1
    /\ anthropic_client = FALSE
    /\ last = NoLast
    /\ svc = SvcIdle
    /\ turn = TurnIdle
    /\ html = HtmlIdle
    /\ call = [fn |-> "handle_mcp_chat_message", frame |-> [w \in Websockets |-> NoFrame]]

\* a connection handles one request at a time (mcp_chat.py 282-288)
InitRequest(w, url, outcome) == ~InFlight(w) /\ HandleInit(w, url, outcome)

\* mcp_chat.py 169-189: the three service calls of a 'message' request
answer_message(client, tool_to_session_map, reply, gen_reply, outcomes) ==
    LET decided == decide_tool_calls(client, reply)
        executed == IF decided.exc # "" THEN decided
                    ELSE IF decided.value # <<>> THEN
                        execute_tool_calls(tool_to_session_map, decided.value, outcomes)
                    ELSE Ok([results |-> <<>>, calls |-> <<>>])
    IN  IF executed.exc # "" THEN executed
        ELSE generate_response(client, UserMessage, executed.value.results, gen_reply)

\* handle_mcp_chat_message, type "message", up to the first await (mcp_chat.py 152-170)
MessageBegin(w, session_id) ==
    /\ ws_open[w]
    /\ ~InFlight(w)
    /\ requests_handled < MaxRequests
    /\ IF session_id \notin DOMAIN active_sessions THEN
           /\ last' = [NoLast EXCEPT !.op = "message", !.ws = w,
                                     !.session_id = session_id, !.raised = TRUE]
           /\ UNCHANGED <<active_sessions, call>>
       ELSE LET s == active_sessions[session_id]
            IN  /\ Len(s.conversation_history) < 2 * MaxTurns
                /\ active_sessions' = [active_sessions EXCEPT
                       ![session_id].conversation_history =
                           Append(@, [role |-> "user", content |-> <<UserMessage>>])]
                /\ call' = [call EXCEPT !.frame[w] =
                       [op |-> "message", session_id |-> session_id, tools |-> s.tools,
                        server_url |-> ""]]
                /\ UNCHANGED last
    /\ UNCHANGED <<ws_open, ws_session_id, next_session_id, anthropic_client,
                   requests_handled, svc, turn, html>>

\* handle_mcp_chat_message, type "message", from the service calls on (mcp_chat.py 170-225)
MessageFinish(w, reply, gen_reply) ==
    /\ call.frame[w].op = "message"
    /\ LET f == call.frame[w]
           s == active_sessions[f.session_id]
       IN  \E outcomes \in OutcomesFor(HandlerCallOutcomes, s.tool_to_session_map,
                                       decide_tool_calls(anthropic_client, reply).value) :
               LET answered == answer_message(anthropic_client, s.tool_to_session_map,
                                              reply, gen_reply, outcomes)
               IN  IF answered.exc # "" THEN
                       /\ last' = [NoLast EXCEPT !.op = "message", !.ws = w,
                                      !.session_id = f.session_id, !.raised = TRUE]
                       /\ UNCHANGED <<active_sessions, ws_session_id, requests_handled>>
                   ELSE
                       /\ active_sessions' = [active_sessions EXCEPT ![f.session_id] =
                              [s EXCEPT !.tools = f.tools,
                                        !.conversation_history =
                                            Append(@, [role |-> "assistant",
                                                       content |-> answered.value])]]
                       /\ ws_session_id' = [ws_session_id EXCEPT ![w] = f.session_id]
                       /\ requests_handled' = requests_handled + 1
                       /\ last' = [NoLast EXCEPT !.op = "message", !.ws = w,
                                      !.session_id = f.session_id]
    /\ call' = [call EXCEPT !.frame[w] = NoFrame]
    /\ UNCHANGED <<ws_open, next_session_id, anthropic_client, svc, turn, html>>

\* handle_mcp_chat_message, type "add_server", up to the await (mcp_chat.py 90-107)
AddServerBegin(w, session_id, url) ==
    /\ ws_open[w]
    /\ ~InFlight(w)
    /\ requests_handled < MaxRequests
    /\ LET known == session_id \in DOMAIN active_sessions
           s == active_sessions[session_id]
       IN  IF ~known \/ already_connected(s.server_connections, url) THEN
               /\ last' = [NoLast EXCEPT !.op = "add_server", !.ws = w,
                                         !.session_id = session_id, !.raised = TRUE]
               /\ UNCHANGED call
           ELSE
               /\ call' = [call EXCEPT !.frame[w] =
                      [op |-> "add_server", session_id |-> session_id,
                       tools |-> s.tools, server_url |-> url]]
               /\ UNCHANGED last
    /\ UNCHANGED <<active_sessions, ws_open, ws_session_id, next_session_id, anthropic_client,
                   requests_handled, svc, turn, html>>

\* handle_mcp_chat_message, type "add_server", after the await (mcp_chat.py 107-150)
AddServerFinish(w, outcome) ==
    /\ call.frame[w].op = "add_server"
    /\ LET f == call.frame[w]
           s == active_sessions[f.session_id]
           conn == connect_to_mcp_server(f.session_id, f.server_url, outcome)
       IN  IF conn.exc # "" THEN
               /\ last' = [NoLast EXCEPT !.op = "add_server", !.ws = w,
                                         !.session_id = f.session_id, !.raised = TRUE]
               /\ UNCHANGED <<active_sessions, ws_session_id, requests_handled>>
           ELSE
               /\ active_sessions' = [active_sessions EXCEPT ![f.session_id] =
                      [s EXCEPT !.server_connections =
                                    Append(@, [transport |-> conn.value.transport,
                                               mcp_session |-> conn.value.mcp_session,
                                               server_url |-> f.server_url]),
                                !.tool_to_session_map =
                                    update_tool_to_session_map(@, conn.value.tools,
                                                               conn.value.mcp_session),
                                !.tools = f.tools \o conn.value.tools]]
               /\ ws_session_id' = [ws_session_id EXCEPT ![w] = f.session_id]
               /\ requests_handled' = requests_handled + 1
               /\ last' = [NoLast EXCEPT !.op = "add_server", !.ws = w,
                                         !.session_id = f.session_id]
    /\ call' = [call EXCEPT !.frame[w] = NoFrame]
    /\ UNCHANGED <<ws_open, next_session_id, anthropic_client, svc, turn, html>>

InterleavedNext ==
    \/ \E w \in Websockets, url \in Servers, outcome \in ConnectOutcomes :
           InitRequest(w, url, outcome)
    \/ \E w \in Websockets, session_id \in 1..MaxRequests : MessageBegin(w, session_id)
    \/ \E w \in Websockets, reply \in HandlerReplies, gen_reply \in HandlerGenerateReplies :
           MessageFinish(w, reply, gen_reply)
    \/ \E w \in Websockets, session_id \in 1..MaxRequests, url \in Servers :
           AddServerBegin(w, session_id, url)
    \/ \E w \in Websockets, outcome \in ConnectOutcomes : AddServerFinish(w, outcome)

SpecInterleaved == InterleavedInit /\ [][InterleavedNext]_vars

----------------------------------------------------------------------------
(* The tool catalog of the tool-decision request (mcp_chat_service.py 133-141) *)

\* One line per entry of available_tools, in order: "- name: description",
\* the description being that of the server that enumerated the entry.
tool_descriptions(available_tools) ==
    [i \in 1..Len(available_tools) |->
        [name |-> available_tools[i].name, described_by |-> available_tools[i].server]]

\* mcp_chat.py 170-174: the catalog a message request of the session hands to
\* decide_tool_calls
catalog_of(s) == tool_descriptions(s.tools)

----------------------------------------------------------------------------
(* Claims *)

Exposes(url, name) == name \in Range(ServerTools(url))

\* The session of the server that connected last among those exposing `name`.
LatestExposing(server_connections, name) ==
    LET idx == {i \in 1..Len(server_connections) :
                    Exposes(server_connections[i].server_url, name)}
        top == CHOOSE i \in idx : \A j \in idx : j <= i
    IN  server_connections[top].mcp_session

\* C1: when server B connected (add_server) after server A and both expose a
\* tool of the same name, a later message turn's execute_tool_calls invoking
\* that name calls the session of B (the server exposing the name that
\* connected last) and never the session of A.
C1_LaterServerWins ==
    (last.op = "message" /\ ~last.raised) =>
        LET conns == active_sessions[last.session_id].server_connections
        IN  \A c \in 1..Len(last.calls) :
                LET name == last.calls[c].tool_name
                IN  /\ last.calls[c].session = LatestExposing(conns, name)
                    /\ \A a, b \in 1..Len(conns) :
                           (a < b /\ Exposes(conns[a].server_url, name)
                                  /\ Exposes(conns[b].server_url, name))
                               => last.calls[c].session # conns[a].mcp_session

C1_Witness ==
    /\ last.op = "message" /\ ~last.raised
    /\ last.session_id \in DOMAIN active_sessions
    /\ LET conns == active_sessions[last.session_id].server_connections
       IN  /\ Len(conns) >= 2
           /\ Exposes(conns[1].server_url, "search") /\ Exposes(conns[2].server_url, "search")
           /\ \E c \in 1..Len(last.calls) :
                  /\ last.calls[c].tool_name = "search"
                  /\ last.calls[c].session = conns[Len(conns)].mcp_session

\* The entry is one execute_tool_calls reports as failed without calling a tool.
FailsBeforeCall(tool_to_session_map, tool_call) == ~Invokes(tool_to_session_map, tool_call)

\* C2: execute_tool_calls returns exactly one result record per entry of
\* tool_calls, in order, for every batch decide_tool_calls can hand it: an
\* entry whose name is missing or unknown, or whose call raises, yields a
\* record with result null and a non-null error, and the rest is still run.
C2_OneResultPerCall ==
    (svc.pc \in {"executed", "raised", "done"} /\ svc.tool_calls # <<>>) =>
        /\ svc.exc = ""
        /\ Len(svc.results) = Len(svc.tool_calls)
        /\ \A i \in 1..Len(svc.tool_calls) :
               /\ svc.results[i].arguments = svc.tool_calls[i].arguments
               /\ (\/ FailsBeforeCall(svc.tool_to_session_map, svc.tool_calls[i])
                   \/ svc.outcomes[i] = "raises") =>
                      (svc.results[i].result = None /\ svc.results[i].error # None)

\* C3: decide_tool_calls never raises; when the reply is not parseable JSON,
\* is JSON but not an array, the provider call fails, or no client is
\* configured, it returns the empty list.
C3_DecideNeverRaises ==
    (svc.pc = "decided" \/ (svc.pc = "raised" /\ svc.reply # NoReply)) =>
        /\ svc.pc = "decided" /\ svc.exc = ""
        /\ (\/ ~svc.client
            \/ svc.reply.status \in {"raises", "not_text_block"}
            \/ svc.reply.fence = "unclosed"
            \/ svc.reply.body \in {"notjson", "nonarray"}) => svc.tool_calls = <<>>
        /\ (svc.client /\ svc.reply.status = "text" /\ svc.reply.fence # "unclosed"
                /\ svc.reply.body = "array") => svc.tool_calls = svc.reply.items

C3_Witness ==
    /\ svc.pc = "decided" /\ svc.client
    /\ svc.reply.status = "text" /\ svc.reply.fence = "none" /\ svc.reply.body = "notjson"
    /\ svc.tool_calls = <<>>

\* The line of the templated summary for one result: the tool name with its
\* result or, when it has none, its error string.
C4_Line(r) == <<"- ", r.tool_name, ": ">> \o (IF r.result # None THEN r.result[1] ELSE r.error[1])

\* C4: generate_response always returns a non-empty answer and never raises,
\* whatever the provider call does; when the provider call fails or no client
\* is configured and there are tool results, the answer is the templated
\* summary: every tool name with its result or error, then the user's question.
C4_AlwaysSomeAnswer ==
    (svc.pc = "done" \/ (svc.pc = "raised" /\ svc.gen_reply # "")) =>
        /\ svc.pc = "done" /\ svc.exc = ""
        /\ svc.answer # <<>>
        /\ ((~svc.client \/ svc.gen_reply \in {"raises", "not_text_block"}) /\ svc.results # <<>>) =>
               svc.answer =
                   <<"I executed the following tools:\n">>
                   \o Join([i \in 1..Len(svc.results) |-> C4_Line(svc.results[i])], <<"\n">>)
                   \o <<"\n\nBased on the results, here's the answer to your question: '",
                        UserMessage, "'">>

\* C5: cleanup_session attempts to close the MCP session and the transport of
\* every connection recorded for the session, continuing past a close that
\* raises, and afterwards the session_id is no key of active_sessions.
C5_CleanupClosesAll ==
    (last.op = "cleanup") =>
        /\ ~last.raised
        /\ last.session_id \notin DOMAIN active_sessions
        /\ \A i \in 1..Len(last.connections) :
               \E a, b \in 1..Len(last.close_log) :
                   /\ a < b
                   /\ last.close_log[a].target = last.connections[i].mcp_session
                   /\ last.close_log[b].target = last.connections[i].transport
        /\ Len(last.close_log) = 2 * Len(last.connections)

C5_Witness ==
    /\ last.op = "cleanup"
    /\ Len(last.connections) >= 2
    /\ last.close_log[1].raised
    /\ last.close_log[Len(last.close_log)].target = last.connections[Len(last.connections)].transport

\* Every provider call of the text-response branch raised, and there was one.
AllTextCallsRaised ==
    /\ turn.text_events # <<>>
    /\ \A i \in 1..Len(turn.text_events) : turn.text_events[i].outcome = "raises"

UiFailures == {e \in Range(turn.ui_events) : e.outcome # "ok"}

\* the text the text-response branch produced
TextBranchText ==
    IF turn.text_events # <<>> /\ turn.text_events[Len(turn.text_events)].outcome = "text"
    THEN _clean_html_from_text(turn.text_events[Len(turn.text_events)].reply)
    ELSE fallback_response(LlmTools, turn.text_user_message, turn.conversation_context)

C8_EnvelopeIffHtml ==
    turn.pc = "done" =>
        /\ turn.ui_resource # None <=>
               (turn.html_content # None /\ turn.html_content[1].html_content # <<>>)
        /\ turn.ui_resource # None =>
               turn.ui_resource[1] =
                   [type |-> "resource",
                    resource |-> [uri |-> <<"ui://widget/", turn.widget_id>>,
                                  mimeType |-> "text/html",
                                  text |-> turn.html_content[1].html_content]]

C8_Witness ==
    /\ turn.pc = "done"
    /\ turn.widget_id = "w-2"
    /\ turn.ui_resource # None
    /\ turn.ui_resource[1].resource.uri = <<"ui://widget/", "w-2">>
    /\ turn.ui_resource[1].resource.text = <<"<html", ">", "x", "</html>">>

\* C9 (as stated): HTML extraction is idempotent: extracting from the text an
\* extraction returned gives that text again.
C9_ExtractIdempotent ==
    html.pc = "twice" => html.twice = html.once

\* The paired fences of a text: the 1st with the 2nd, the 3rd with the 4th, ...
FencePositions(text) == {i \in 1..Len(text) : text[i] = Fence}
NthFence(text, n) ==
    CHOOSE i \in FencePositions(text) :
        Cardinality({j \in FencePositions(text) : j <= i}) = n
LastBlockOpening(text) == NthFence(text, 2 * (Cardinality(FencePositions(text)) \div 2) - 1)
LastBlockClosing(text) == NthFence(text, 2 * (Cardinality(FencePositions(text)) \div 2))
\* What the last fenced block holds: the pieces between its fences, less the
\* html tag and the whitespace after the opening fence, less one newline
\* before the closing fence.
LastBlockContent(text) ==
    LET inner == SubSeq(text, LastBlockOpening(text) + 1, LastBlockClosing(text) - 1)
        untagged == IF inner # <<>> /\ inner[1] = "html" THEN Tail(inner) ELSE inner
        body == LStrip(untagged)
    IN  IF body # <<>> /\ body[Len(body)] = "\n" THEN SubSeq(body, 1, Len(body) - 1)
        ELSE body

\* C10: when the raw text holds a fenced block, the result is made from the
\* content of the last fenced block alone, and a complete document wrapped in
\* a fence with prose around it is returned exactly.
C10_LastFencedBlockOnly ==
    html.pc \in {"once", "twice"} =>
        /\ Cardinality(FencePositions(html.raw_text)) >= 2 =>
               html.once = extract_from(LastBlockContent(html.raw_text))
        /\ html.document # None => html.once = html.document[1]

\* prose, a fenced complete document, prose: the document came back alone
C10_Witness ==
    /\ html.pc = "once"
    /\ html.document # None
    /\ Cardinality(FencePositions(html.raw_text)) = 2
    /\ html.raw_text[1] = "x"
    /\ html.raw_text[Len(html.raw_text)] = "x"
    /\ html.once = html.document[1]

\* the line _extract_clean_html puts before a text that has no prologue
SynthesizedPrologue == <<"<!DOCTYPE", " ", "html", ">", "\n">>

\* C11: for every non-empty raw text the result starts with '<!doctype' or
\* '<html' and ends with '</html>'; a raw text holding neither prologue gives a
\* result that starts with the synthesized '<!DOCTYPE html>' line.
C11_RepairedDocument ==
    (html.pc \in {"once", "twice"} /\ html.raw_text # <<>>) =>
        /\ html.once # <<>>
        /\ html.once[1] \in {"<!DOCTYPE", "<html"}
        /\ html.once[Len(html.once)] = "</html>"
        /\ (\A i \in 1..Len(html.raw_text) : html.raw_text[i] \notin {"<!DOCTYPE", "<html"}) =>
               /\ Len(html.once) >= Len(SynthesizedPrologue)
               /\ SubSeq(html.once, 1, Len(SynthesizedPrologue)) = SynthesizedPrologue

\* a text with no <html and no </html> anywhere comes back wrapped
C11_Witness ==
    /\ html.pc = "once"
    /\ html.raw_text = <<"x", ">", "x">>
    /\ html.once = SynthesizedPrologue \o <<"x", ">", "\n", "</html>">>

\* Every bracket of a script body is closed, in order.
RECURSIVE OpenAfter(_, _)
OpenAfter(body, open) ==
    IF body = <<>> THEN open
    ELSE IF Head(body) \in {"{", "(", "["} THEN OpenAfter(Tail(body), <<Head(body)>> \o open)
    ELSE IF Head(body) \in {"}", ")", "]"} THEN
        IF open # <<>> /\ <<Head(open), Head(body)>> \in {<<"{", "}">>, <<"(", ")">>, <<"[", "]">>}
        THEN OpenAfter(Tail(body), Tail(open))
        ELSE <<"unbalanced">>
    ELSE OpenAfter(Tail(body), open)
StructurallyClosed(body) == OpenAfter(body, <<>>) = <<>>
CutMidExpression(body) ==
    OpenAfter(body, <<>>) # <<>> /\ OpenAfter(body, <<>>) # <<"unbalanced">>

\* C12 (as stated): a document whose script is cut off mid-expression, received
\* with finish_reason 'length', is classified incomplete; the same document
\* with its script structurally closed and finish_reason 'stop' is classified
\* not incomplete; in both cases the extracted html_content is returned.
C12_IncompleteIffCut ==
    (call.fn = "_process_ui_generation_response" /\ call.pc = "returned"
     /\ call.raw_html # <<>>) =>
        /\ (~call.closed /\ CutMidExpression(call.body) /\ call.finish_reason = "length") =>
               call.incomplete
        /\ (call.closed /\ StructurallyClosed(call.body) /\ call.finish_reason = "stop") =>
               ~call.incomplete
        /\ call.returned = Some([html_content |-> _extract_clean_html(call.raw_html)])

\* C12 (amended): as stated, for documents that hold the ReactDOM.render call:
\* a closed document without it is classified incomplete whatever its
\* finish_reason.
C12_IncompleteIffCutWithRender ==
    (call.fn = "_process_ui_generation_response" /\ call.pc = "returned"
     /\ call.raw_html # <<>>) =>
        /\ (~call.closed /\ CutMidExpression(call.body) /\ call.finish_reason = "length") =>
               call.incomplete
        /\ (call.closed /\ StructurallyClosed(call.body) /\ call.finish_reason = "stop") =>
               (call.incomplete <=> Count(call.body, "ReactDOM.render") = 0)
        /\ call.returned = Some([html_content |-> _extract_clean_html(call.raw_html)])

C12_Witness ==
    /\ call.fn = "_process_ui_generation_response"
    /\ call.pc = "returned"
    /\ call.closed
    /\ call.body = <<"ReactDOM.render", "(", ")">>
    /\ call.finish_reason = "stop"
    /\ ~call.incomplete
    /\ call.returned = Some([html_content |-> call.raw_html])

\* C13 (as stated): parsing the context built from a list of previous messages
\* gives one message per input message, in order, with the original role and
\* content; the empty list gives the sentinel, and the sentinel the empty list.
C13_ContextRoundTrip ==
    (call.fn = "_build_conversation_context" /\ call.pc = "parsed") =>
        /\ call.parsed_messages = call.previous_messages
        /\ call.previous_messages = <<>> => call.conversation_context = NoHistory

\* the first position of a piece in a text, 0 if it does not occur
IndexOf(text, piece) ==
    IF \E i \in 1..Len(text) : text[i] = piece
    THEN Min({i \in 1..Len(text) : text[i] = piece}) ELSE 0

\* the tool section of a prompt: what stands between the line that opens the
\* tool list and the line that follows it
ToolSectionOf(prompt) ==
    LET header == IF call.fn = "build_text_response_prompt" THEN "\n\n# Tool Details:\n"
                  ELSE "\n\nCONTEXT:\n- Tools:\n"
        footer == IF call.fn = "build_text_response_prompt" THEN "\n\n"
                  ELSE "\n- User's Request: "
        from == IndexOf(prompt, header) + 1
        rest == SubSeq(prompt, from, Len(prompt))
        to == IF call.fn = "build_text_response_prompt" THEN Len(rest) - 1
              ELSE IndexOf(rest, footer)
    IN  SubSeq(rest, 1, to - 1)

ToolIdLabels == {"- Tool ID: ", "\n    - Tool ID: "}
EntryPositions(section) == {i \in 1..(Len(section) - 1) : section[i] \in ToolIdLabels}
EntryIds(section) == {section[i + 1] : i \in EntryPositions(section)}
EnabledIds(tools) == {tools[i].id : i \in {j \in DOMAIN tools : tools[j].is_enabled}}

\* C14: the tool section of the prompts built by build_text_response_prompt and
\* build_ui_generation_prompt_base holds one entry for every enabled tool of the
\* list and no entry for a disabled tool.
C14_OnlyEnabledToolsListed ==
    (call.fn \in {"build_text_response_prompt", "build_ui_generation_prompt_base",
                  "_prepare_ui_generation_context"} /\ call.pc = "returned") =>
        LET section == ToolSectionOf(call.prompt)
        IN  /\ EntryIds(section) = EnabledIds(call.tools)
            /\ Cardinality(EntryPositions(section)) = Cardinality(EnabledIds(call.tools))
            /\ EnabledIds(call.tools) = {} => section = <<"No tools available.">>

C14_Witness ==
    /\ call.fn = "build_ui_generation_prompt_base"
    /\ call.pc = "returned"
    /\ Len(call.tools) = 2
    /\ call.tools[1].id = "t2" /\ ~call.tools[1].is_enabled
    /\ call.tools[2].id = "t1" /\ call.tools[2].is_enabled
    /\ EntryIds(ToolSectionOf(call.prompt)) = {"t1"}

\* the block the prompt would carry for a widget without a stored document
BuildFromScratch == "BUILD FROM SCRATCH"

\* C15 (as stated): the UI-generation system prompt holds exactly one of the
\* two editing-mode blocks: the block on modifying the existing UI when
\* has_existing_ui is true, the build-from-scratch block when it is false,
\* never both and never neither.
C15_ExactlyOneEditingModeBlock ==
    (call.fn \in {"build_ui_generation_prompt_base", "_prepare_ui_generation_context"}
         /\ call.pc = "returned") =>
        /\ Count(call.prompt, ModifyingExistingUi) = (IF call.has_existing_ui THEN 1 ELSE 0)
        /\ Count(call.prompt, BuildFromScratch) = (IF call.has_existing_ui THEN 0 ELSE 1)

\* the stored designs of a type that pass the filter, most recent first
FittingCandidates(table, design_type) ==
    LET Fits(row) == row.design_type = design_type /\ design_fits(row)
    IN  SelectSeq(Reverse(table), Fits)

\* C16 (as stated): for each asset type _fetch_designs_for_llm returns at most
\* 3 assets, each an image below 2 MB, and they are the min(3, n) most recently
\* created of the n stored candidates of that type that pass the filter.
C16_LatestThreeFittingDesigns ==
    (call.fn = "_fetch_designs_for_llm" /\ call.pc = "returned") =>
        LET Returned(design_type) ==
                IF design_type = "logo" THEN call.designs.logos ELSE call.designs.ux_designs
        IN  \A design_type \in {"logo", "ux_design"} :
                /\ Len(Returned(design_type)) <= 3
                /\ \A i \in DOMAIN Returned(design_type) : design_fits(Returned(design_type)[i])
                /\ Returned(design_type) =
                       Take(FittingCandidates(call.designs_table, design_type), 3)

SystemMessagesIn(messages) == {i \in DOMAIN messages : messages[i].role = "system"}
WithoutLeadingSystem(messages) ==
    IF messages # <<>> /\ messages[1].role = "system" THEN Tail(messages) ELSE messages

\* C17 (as stated): with a non-empty system argument the message list sent has
\* exactly one system message, placed first, whose content is the system
\* argument; a leading system message of the caller is replaced, all other
\* messages keep their order, and the caller's list is left unmodified.
C17_ExactlyOneSystemMessage ==
    (call.fn = "LLMClient.call" /\ call.pc = "returned" /\ system_given(call.system)) =>
        /\ SystemMessagesIn(call.litellm_messages) = {1}
        /\ call.litellm_messages[1] = [role |-> "system", content |-> call.system[1]]
        /\ Tail(call.litellm_messages) = WithoutLeadingSystem(call.given_messages)
        /\ call.messages = call.given_messages

\* C17 (amended): with a non-empty system argument the message list sent
\* starts with a system message whose content is the system argument, followed
\* by the caller's messages, without their leading system message if there was
\* one, in their order; system messages further down the caller's list are
\* sent as they are, so the list has exactly one system message when the
\* caller's list has none after its first position; the caller's list is left
\* unmodified.
C17_LeadingSystemMessage ==
    (call.fn = "LLMClient.call" /\ call.pc = "returned" /\ system_given(call.system)) =>
        /\ call.litellm_messages[1] = [role |-> "system", content |-> call.system[1]]
        /\ Tail(call.litellm_messages) = WithoutLeadingSystem(call.given_messages)
        /\ SystemMessagesIn(WithoutLeadingSystem(call.given_messages)) = {} =>
               SystemMessagesIn(call.litellm_messages) = {1}
        /\ call.messages = call.given_messages

C17_Witness ==
    /\ call.fn = "LLMClient.call"
    /\ call.pc = "returned"
    /\ system_given(call.system)
    /\ Len(call.given_messages) = 2
    /\ call.given_messages[1].role = "system"
    /\ call.given_messages[1].content # call.system[1]
    /\ call.given_messages[2].role = "user"
    /\ Len(call.litellm_messages) = 2
    /\ call.litellm_messages[1].content = call.system[1]

\* the key and the model the selected provider is configured with, and the
\* environment variables they come from
SelectedKey(settings) ==
    CASE settings.llm_provider = "openai" -> settings.openai_api_key
      [] settings.llm_provider = "claude" -> settings.anthropic_api_key
      [] OTHER -> settings.gemini_api_key
SelectedModel(settings) ==
    CASE settings.llm_provider = "openai" -> settings.openai_model
      [] settings.llm_provider = "claude" -> settings.claude_model
      [] OTHER -> settings.gemini_model
KeyVariable(settings) ==
    CASE settings.llm_provider = "openai" -> "OPENAI_API_KEY"
      [] settings.llm_provider = "claude" -> "ANTHROPIC_API_KEY"
      [] OTHER -> "GEMINI_API_KEY"
ModelVariable(settings) ==
    CASE settings.llm_provider = "openai" -> "OPENAI_MODEL"
      [] settings.llm_provider = "claude" -> "CLAUDE_MODEL"
      [] OTHER -> "GEMINI_MODEL"
KeyMissing(settings) == SelectedKey(settings) \in {None, Some("")}
ModelMissing(settings) == SelectedModel(settings) = ""

\* C18 (as stated): constructing the provider client fails with a configuration
\* error that names the missing variable whenever the selected provider's API
\* key is empty or unset or its model name is empty, succeeds only when both
\* are non-empty, and rejects an unknown provider name.
C18_MissingConfigurationRejected ==
    (call.fn = "LLMClient.__init__" /\ call.pc = "returned") =>
        LET settings == call.settings
            result == call.result
        IN  IF settings.llm_provider \notin {"openai", "claude", "gemini"}
            THEN result.exc # ""
            ELSE /\ result.exc = "" <=> (~KeyMissing(settings) /\ ~ModelMissing(settings))
                 /\ result.exc # "" =>
                        /\ result.exc = "ValueError"
                        /\ \/ KeyMissing(settings)
                              /\ KeyVariable(settings) \in Range(result.value)
                           \/ ModelMissing(settings)
                              /\ ModelVariable(settings) \in Range(result.value)

StoredOf(table, widget_id) == {table[i] : i \in {j \in DOMAIN table : table[j].widget_id = widget_id}}

\* C19 (as stated): after any sequence of create calls the stored resources of
\* a widget never exceed 20, the resource just created is stored, and the
\* resources removed to make room are the oldest by creation time.
C19_CapKeepsNewest ==
    (call.fn = "UiWidgetResourceRepository.create" /\ call.creates > 0) =>
        /\ \A w \in WidgetIds : Cardinality(StoredOf(call.table, w)) <= MAX_RESOURCES_PER_WIDGET
        /\ \E i \in DOMAIN call.table : Some(call.table[i].id) = call.resource_data.id
        /\ \A w \in WidgetIds :
               \A gone \in StoredOf(call.table_before, w) \ StoredOf(call.table, w) :
                   \A kept \in StoredOf(call.table_before, w) \cap StoredOf(call.table, w) :
                       gone.created_at < kept.created_at

\* the (path, method) operations of a spec, in the order of the document
RECURSIVE OperationsOf(_)
OperationsOf(paths) ==
    IF paths = <<>> THEN <<>>
    ELSE LET item == paths[1].path_item
             ops == SelectSeq(item, LAMBDA e : e.key \in HttpMethods /\ e.value # None)
         IN  [i \in DOMAIN ops |-> [path |-> paths[1].path, method |-> ops[i].key,
                                    operation |-> ops[i].value[1]]]
                 \o OperationsOf(Tail(paths))

\* C20 (as stated): extract_tools_from_openapi_spec returns exactly one tool per
\* (path, HTTP method) operation of the spec, in the order of the spec, each
\* carrying the name derived from its operationId or from method and path; a
\* spec with no paths yields the empty list.
C20_OneToolPerOperation ==
    (call.fn = "extract_tools_from_openapi_spec" /\ call.pc = "returned") =>
        LET operations == OperationsOf(call.spec_data.paths)
            tools == call.result.value
        IN  /\ call.result.exc = ""
            /\ Len(tools) = Len(operations)
            /\ \A i \in DOMAIN tools :
                   /\ tools[i].annotations.path = operations[i].path
                   /\ tools[i].annotations.method = Upper(operations[i].method)
                   /\ tools[i].name = tool_name_of(operations[i].method, operations[i].path,
                                                   operations[i].operation)


\* ---- C21, C28: the attempt sequences of a LlmChat turn ----
ConfiguredProviders(t) ==
    (IF t.openai_client THEN {"openai"} ELSE {}) \cup
    (IF t.anthropic_client THEN {"claude"} ELSE {})
UiFailed(e) == e.outcome \in {"prompt_building_raises", "provider_raises", "processing_raises"}
TextFailed(e) == e.outcome = "raises"
UiBranchOver == turn.pc \in {"text", "done"}
TextBranchOver == turn.pc = "done"
UiYieldedNone == UiBranchOver /\ turn.html_content = None
TextYieldedFallback ==
    /\ TextBranchOver
    /\ turn.raised = ""
    /\ turn.response_text =
           fallback_response(LlmTools, turn.text_user_message, turn.conversation_context)
FailedUiProviders == {turn.ui_events[i].provider : i \in {k \in 1..Len(turn.ui_events) : UiFailed(turn.ui_events[k])}}
FailedTextProviders == {turn.text_events[i].provider : i \in {k \in 1..Len(turn.text_events) : TextFailed(turn.text_events[k])}}
\* the attempt after a failed first attempt goes to the other configured provider
OtherProviderNext(events, first_failed) ==
    (/\ events # <<>>
     /\ first_failed
     /\ ConfiguredProviders(turn) \ {events[1].provider} # {})
        => (Len(events) >= 2 /\ events[2].provider # events[1].provider)

\* C21: in the UI branch and in the text branch of a turn, a failed attempt with
\* the preferred provider is followed next by an attempt with the other
\* configured provider, and the UI branch yields None / the text branch yields
\* the fallback string only when every configured provider has failed.
C21_FailoverBeforeGivingUp ==
    /\ UiBranchOver =>
           OtherProviderNext(turn.ui_events,
                             turn.ui_events # <<>> /\ UiFailed(turn.ui_events[1]))
    /\ UiYieldedNone => ConfiguredProviders(turn) \subseteq FailedUiProviders
    /\ TextBranchOver =>
           OtherProviderNext(turn.text_events,
                             turn.text_events # <<>> /\ TextFailed(turn.text_events[1]))
    /\ TextYieldedFallback => ConfiguredProviders(turn) \subseteq FailedTextProviders

\* C28: within the UI branch and within the text branch of a turn, no provider
\* is attempted more than once.
C28_NoProviderAttemptedTwice ==
    /\ \A i, j \in 1..Len(turn.ui_events) :
           turn.ui_events[i].provider = turn.ui_events[j].provider => i = j
    /\ \A i, j \in 1..Len(turn.text_events) :
           turn.text_events[i].provider = turn.text_events[j].provider => i = j


\* ---- C22, C23: sessions and the connections that created them ----
SessionTouched(id) ==
    id \notin DOMAIN active_sessions' \/ active_sessions'[id] # active_sessions[id]

PairedHistory(history) ==
    /\ Len(history) % 2 = 0
    /\ \A i \in 1..Len(history) :
           history[i].role = (IF i % 2 = 1 THEN "user" ELSE "assistant")

MapMatchesTools(s) ==
    /\ ToolNames(s.tools) = DOMAIN s.tool_to_session_map
    /\ \A n \in DOMAIN s.tool_to_session_map :
           \E i \in 1..Len(s.server_connections) :
               s.server_connections[i].mcp_session = s.tool_to_session_map[n]

RoutedServer(s, name) ==
    LET i == CHOOSE k \in 1..Len(s.server_connections) :
                 s.server_connections[k].mcp_session = s.tool_to_session_map[name]
    IN  s.server_connections[i].server_url

AddServerRejected(session_id, url, outcome) ==
    \/ session_id \notin DOMAIN active_sessions
    \/ \E i \in 1..Len(active_sessions[session_id].server_connections) :
           active_sessions[session_id].server_connections[i].server_url = url
    \/ outcome # "ok"

\* C29: an add_server request that is rejected leaves every session's
\* server_connections, tool list, tool_to_session_map and conversation
\* history as they were, and is answered with an error.
C29_RejectedAddServerChangesNothing ==
    [][last'.op = "add_server" =>
           \A url \in Servers, outcome \in ConnectOutcomes :
               (HandleAddServer(last'.ws, last'.session_id, url, outcome)
                   /\ AddServerRejected(last'.session_id, url, outcome))
                   => (active_sessions' = active_sessions /\ last'.raised)]_vars

C29_Witness ==
    /\ last.op = "add_server"
    /\ last.raised
    /\ last.session_id \in DOMAIN active_sessions
    /\ active_sessions[last.session_id].conversation_history # <<>>


\* ---- C30: $ref resolution on cyclic component schemas ----
\* C30: extract_tools_from_openapi_spec comes to an end of its own for every
\* spec, also when component schemas reference themselves or each other
\* through $ref: resolve_schema never recurses until the interpreter stops it.
C30_RefResolutionFinishes ==
    (call.fn = "extract_tools_from_openapi_spec" /\ call.pc = "returned")
        => call.result.exc # "RecursionError"

====
